---- MODULE Spec2Model ----
(***************************************************************************)
(* Raseed (Bill0) billing core: the Ledger (BillingService) that owns the  *)
(* invoices, products, customers and seller profile, and the part of the   *)
(* invoice form (InvoiceGeneratorComponent.generatePDF) that commits an    *)
(* invoice to it.                                                          *)
(*                                                                         *)
(* JavaScript runs every synchronous stretch of code to completion, so one *)
(* action is one such stretch: a whole service method, or generatePDF up   *)
(* to its only await.  Objects are held by reference: an Account is either *)
(* a caller-owned object of the heap (Ref), an object literal nobody else  *)
(* holds (Lit), or null/undefined.                                         *)
(***************************************************************************)
EXTENDS Integers, Sequences, FiniteSets, TLC

\* ---------------------------------------------------------------- bounds
MaxInvoices == 2     \* invoices the collection may hold
MaxNumbered == 11    \* the same, where only the numbering is followed
YearSpan    == 1     \* how many times the calendar year may advance
MaxProducts == 1     \* products the catalogue may hold
MaxItems    == 1     \* line items the invoice form may hold
NumKeys     == 2     \* distinct idempotency keys API callers choose from
MaxUuids    == 2     \* uuidv4() calls, where page loads can drop invoices
MaxQuantity == 2     \* the largest quantity of a line item
MaxLines    == 2     \* line items of an invoice given to calculateInvoice
MaxDay      == 3     \* the days 0..MaxDay, besides the 15th and the 31st
MaxRows     == 2     \* line items the invoice form may hold, when edited
MaxGross    == 51    \* the largest gross amount taken through a round trip
MaxAmount   == 120   \* the amounts 0..MaxAmount formatMoney is given

\* new Date().getFullYear() in the first state
FirstYear == 2025

\* ------------------------------------------------- strings, as JS has them
\* a string is a sequence of one-character strings
DigitChars == <<"0", "1", "2", "3", "4", "5", "6", "7", "8", "9">>

IsDigit(c) == \E i \in 1..10 : DigitChars[i] = c

DigitVal(c) == CHOOSE v \in 0..9 : DigitChars[v + 1] = c

NaN == -1

\* Number.prototype.toString() of a non-negative integer
RECURSIVE toString(_)
toString(n) ==
    IF n < 10 THEN <<DigitChars[n + 1]>>
    ELSE toString(n \div 10) \o <<DigitChars[(n % 10) + 1]>>

\* String.prototype.padStart(len, c)
RECURSIVE padStart(_, _, _)
padStart(s, len, c) ==
    IF Len(s) >= len THEN s ELSE padStart(<<c>> \o s, len, c)

\* String.prototype.startsWith(p)
startsWith(s, p) == Len(s) >= Len(p) /\ SubSeq(s, 1, Len(p)) = p

\* String.prototype.split(sep) for a one-character separator
RECURSIVE split(_, _)
split(s, sep) ==
    IF \A i \in 1..Len(s) : s[i] # sep THEN <<s>>
    ELSE LET i == CHOOSE j \in 1..Len(s) :
                      s[j] = sep /\ \A k \in 1..(j - 1) : s[k] # sep
         IN  <<SubSeq(s, 1, i - 1)>> \o split(SubSeq(s, i + 1, Len(s)), sep)

\* value of the digit string s read in base 10
RECURSIVE digitsValue(_)
digitsValue(s) ==
    IF s = <<>> THEN 0
    ELSE 10 * digitsValue(SubSeq(s, 1, Len(s) - 1)) + DigitVal(s[Len(s)])

\* parseInt(s, 10): the leading digits of s, NaN when there are none
parseInt(s) ==
    LET n == Cardinality({i \in 1..Len(s) : \A j \in 1..i : IsDigit(s[j])})
    IN  IF n = 0 THEN NaN ELSE digitsValue(SubSeq(s, 1, n))

\* an optional value is the empty set (undefined) or a singleton
None    == {}
Some(v) == {v}
The(o)  == CHOOSE v \in o : TRUE

\* ------------------------------------------------- numbers, as JS has them
\* Where a value is computed once and used several times it is bound by
\* x \in {e}: The({f(x) : x \in {e}}) is f(e).
\* A JS number is an IEEE-754 double.  A natural number of any size is the
\* sequence of its digits in base Base, lowest first, without a highest
\* digit 0; a double is sign * m * 2^e with m such a natural below 2^53.
Base == 32768

RECURSIVE pow2(_)
pow2(k) == IF k = 0 THEN 1 ELSE 2 * pow2(k - 1)

RECURSIVE bnOf(_)
bnOf(n) == IF n = 0 THEN <<>> ELSE <<n % Base>> \o bnOf(n \div Base)

RECURSIVE bnToInt(_)
bnToInt(a) == IF a = <<>> THEN 0 ELSE a[1] + Base * bnToInt(Tail(a))

RECURSIVE bnTrim(_)
bnTrim(a) ==
    IF a = <<>> THEN <<>>
    ELSE IF a[Len(a)] = 0 THEN bnTrim(SubSeq(a, 1, Len(a) - 1)) ELSE a

RECURSIVE bnAddC(_, _, _)
bnAddC(a, b, c) ==
    IF a = <<>> /\ b = <<>> THEN (IF c = 0 THEN <<>> ELSE <<c>>)
    ELSE LET x == (IF a = <<>> THEN 0 ELSE a[1])
                      + (IF b = <<>> THEN 0 ELSE b[1]) + c
         IN  <<x % Base>> \o bnAddC(IF a = <<>> THEN <<>> ELSE Tail(a),
                                    IF b = <<>> THEN <<>> ELSE Tail(b),
                                    x \div Base)

bnAdd(a, b) == bnAddC(a, b, 0)

RECURSIVE bnSubB(_, _, _)
bnSubB(a, b, c) ==
    IF a = <<>> THEN <<>>
    ELSE LET x == a[1] - (IF b = <<>> THEN 0 ELSE b[1]) - c
         IN  <<(x + Base) % Base>>
                 \o bnSubB(Tail(a), IF b = <<>> THEN <<>> ELSE Tail(b),
                           IF x < 0 THEN 1 ELSE 0)

\* a - b for a >= b
bnSub(a, b) == bnTrim(bnSubB(a, b, 0))

RECURSIVE bnCmpAt(_, _, _)
bnCmpAt(a, b, i) ==
    IF i = 0 THEN 0
    ELSE IF a[i] < b[i] THEN -1
    ELSE IF a[i] > b[i] THEN 1
    ELSE bnCmpAt(a, b, i - 1)

\* -1, 0 or 1 as a is below, equal to or above b
bnCmp(a, b) ==
    IF Len(a) < Len(b) THEN -1
    ELSE IF Len(a) > Len(b) THEN 1
    ELSE bnCmpAt(a, b, Len(a))

RECURSIVE bnMulSmall(_, _, _)
bnMulSmall(a, k, c) ==
    IF a = <<>> THEN (IF c = 0 THEN <<>> ELSE <<c>>)
    ELSE LET x == a[1] * k + c
         IN  <<x % Base>> \o bnMulSmall(Tail(a), k, x \div Base)

RECURSIVE bnMulAcc(_, _)
bnMulAcc(a, b) ==
    IF b = <<>> THEN <<>>
    ELSE bnAdd(bnMulSmall(a, b[1], 0), <<0>> \o bnMulAcc(a, Tail(b)))

bnMul(a, b) == bnTrim(bnMulAcc(a, b))

\* a * 2^k
bnShl(a, k) ==
    IF a = <<>> THEN <<>>
    ELSE [i \in 1..(k \div 15) |-> 0] \o bnMulSmall(a, pow2(k % 15), 0)

RECURSIVE bnDivSmallAt(_, _, _, _)
bnDivSmallAt(a, d, i, rem) ==
    IF i = 0 THEN <<>>
    ELSE LET x == rem * Base + a[i]
         IN  bnDivSmallAt(a, d, i - 1, x % d) \o <<x \div d>>

\* floor(a / 2^k)
bnShr(a, k) ==
    IF Len(a) <= k \div 15 THEN <<>>
    ELSE The({bnTrim(bnDivSmallAt(hi, pow2(k % 15), Len(hi), 0)) :
                 hi \in {SubSeq(a, (k \div 15) + 1, Len(a))}})

RECURSIVE bitLen(_)
bitLen(n) == IF n = 0 THEN 0 ELSE 1 + bitLen(n \div 2)

bnBitLen(a) == IF a = <<>> THEN 0 ELSE 15 * (Len(a) - 1) + bitLen(a[Len(a)])

bnOdd(a) == a # <<>> /\ a[1] % 2 = 1

\* the largest digit x in lo..hi with d * x <= r (d * lo <= r)
RECURSIVE bnDigit(_, _, _, _)
bnDigit(r, d, lo, hi) ==
    IF lo = hi THEN lo
    ELSE The({IF bnCmp(bnMulSmall(d, mid, 0), r) <= 0
              THEN bnDigit(r, d, mid, hi)
              ELSE bnDigit(r, d, lo, mid - 1) :
                 mid \in {(lo + hi + 1) \div 2}})

\* one step of the long division by d: with r2 the remainder so far and
\* the next digit brought down, <<x, r2 - d * x>> for the digit x of the
\* quotient.  dT is d without its s lowest bits and rT is r2 without them,
\* so that x lies between rT / (dT + 1) and (rT + 1) / dT
bnDivDigit(r2, d, s, dT) ==
    The({The({<<x, IF x = 0 THEN r2 ELSE bnSub(r2, bnMulSmall(d, x, 0))>> :
        x  \in {IF s = 0 THEN rT \div dT
                ELSE bnDigit(r2, d, rT \div (dT + 1),
                             IF (rT + 1) \div dT < Base
                             THEN (rT + 1) \div dT ELSE Base - 1)}}) :
        rT \in {bnToInt(bnShr(r2, s))}})

\* long division: quotient q and remainder r so far, digits i..1 of n to go
RECURSIVE bnDivStep(_, _, _, _, _, _, _)
bnDivStep(n, d, s, dT, i, q, r) ==
    IF i = 0 THEN <<q, r>>
    ELSE The({bnDivStep(n, d, s, dT, i - 1, <<xr[1]>> \o q, xr[2]) :
                 xr \in {bnDivDigit(bnTrim(<<n[i]>> \o r), d, s, dT)}})

\* <<floor(n / d), n mod d>> for d > 0
bnDivMod(n, d) ==
    IF d = <<1>> THEN <<n, <<>>>>
    ELSE The({The({<<bnTrim(qr[1]), qr[2]>> :
        qr \in {bnDivStep(n, d, s, bnToInt(bnShr(d, s)), Len(n), <<>>, <<>>)}}) :
        s  \in {IF bnBitLen(d) > 15 THEN bnBitLen(d) - 15 ELSE 0}})

\* the double nearest to sign * (num / den) * 2^e, ties to the even mantissa
\* (the values here are far from the overflow and subnormal ranges)
\* num / den is scaled by 2^k to a quotient of 56 or 57 bits, qr[1], with
\* remainder qr[2]; t bits of it are dropped, m0 is what is kept, c compares
\* what is dropped with the half
roundToDouble(sign, num, den, e) ==
    IF num = <<>> THEN [s |-> 1, m |-> <<>>, e |-> 0]
    ELSE The({The({The({The({The({
        [s |-> sign,
         m |-> IF c > 0 \/ (c = 0 /\ (qr[2] # <<>> \/ bnOdd(m0)))
               THEN bnAdd(m0, <<1>>) ELSE m0,
         e |-> e - k + t] :
        c  \in {bnCmp(bnSub(qr[1], bnShl(m0, t)), bnShl(<<1>>, t - 1))}}) :
        m0 \in {bnShr(qr[1], t)}}) :
        t  \in {bnBitLen(qr[1]) - 53}}) :
        qr \in {bnDivMod(IF k >= 0 THEN bnShl(num, k) ELSE num,
                         IF k >= 0 THEN den ELSE bnShl(den, 0 - k))}}) :
        k  \in {56 - (bnBitLen(num) - bnBitLen(den))}})

\* the double a decimal literal denotes; the literal is given as the pair
\* <<n, d>> of its digits n and its scale d, as 1.4 is <<14, 10>>
numberOf(literal) ==
    roundToDouble(IF literal[1] < 0 THEN -1 ELSE 1,
                  bnOf(IF literal[1] < 0 THEN 0 - literal[1] ELSE literal[1]),
                  bnOf(literal[2]), 0)

\* an integer as a double
fromInt(n) ==
    [s |-> IF n < 0 THEN -1 ELSE 1, m |-> bnOf(IF n < 0 THEN 0 - n ELSE n),
     e |-> 0]

\* x / y, x * y, x + y and x - y of doubles (y # 0 in x / y)
fdiv(x, y) == roundToDouble(x.s * y.s, x.m, y.m, x.e - y.e)

fmul(x, y) == roundToDouble(x.s * y.s, bnMul(x.m, y.m), <<1>>, x.e + y.e)

fadd(x, y) ==
    The({The({The({
        IF x.s = y.s THEN roundToDouble(x.s, bnAdd(a, b), <<1>>, e0)
        ELSE IF bnCmp(a, b) >= 0
        THEN roundToDouble(x.s, bnSub(a, b), <<1>>, e0)
        ELSE roundToDouble(y.s, bnSub(b, a), <<1>>, e0) :
        b  \in {bnShl(y.m, y.e - e0)}}) :
        a  \in {bnShl(x.m, x.e - e0)}}) :
        e0 \in {IF x.e < y.e THEN x.e ELSE y.e}})

fsub(x, y) == fadd(x, [y EXCEPT !.s = 0 - y.s])

\* Math.abs(x) and x < y of doubles
fabs(x) == [x EXCEPT !.s = 1]

fless(x, y) == The({d.m # <<>> /\ d.s < 0 : d \in {fsub(x, y)}})

\* Math.round(x): the integer nearest to x, a tie going up
MathRound(x) ==
    IF x.e >= 0 THEN x.s * bnToInt(bnShl(x.m, x.e))
    ELSE The({The({The({
        IF x.s > 0
        THEN bnToInt(ip) + (IF c >= 0 THEN 1 ELSE 0)
        ELSE 0 - (bnToInt(ip) + (IF c > 0 THEN 1 ELSE 0)) :
        c  \in {bnCmp(bnSub(x.m, bnShl(ip, t)), bnShl(<<1>>, t - 1))}}) :
        ip \in {bnShr(x.m, t)}}) :
        t  \in {0 - x.e}})

\* ------------------------------------------------------------ data model
\* InvoiceStatus
Draft     == "Draft"
Finalized == "Finalized"
Paid      == "Paid"
Void      == "Void"
InvoiceStatus == {Draft, Finalized, Paid, Void}

\* Account objects that API callers own and pass by reference
Objs == {"o1", "o2"}

\* references
Null   == [kind |-> "null", at |-> "null"]
Ref(o) == [kind |-> "ref", at |-> o]
Lit(v) == [kind |-> "lit", at |-> v]

\* the Account value a reference shows when it is read through heap h
Deref(h, r) == IF r.kind = "ref" THEN h[r.at] ELSE r.at

\* idempotency keys: chosen by an API caller, or drawn from uuidv4()
CallerKey(i) == <<"key", i>>
UuidKey(n)   == <<"uuid", n>>
CallerKeys   == {CallerKey(i) : i \in 1..NumKeys}

VARIABLES
    invoices,          \* BillingService.invoices
    products,          \* BillingService.products
    customers,         \* BillingService.customers
    sellerProfile,     \* BillingService.sellerProfile
    heap,              \* the Account objects callers own: Objs -> value
    year,              \* new Date().getFullYear()
    nextUuid,          \* how many uuidv4() values have been drawn
    call,              \* the createInvoice call made last: data and key
    ret,               \* what that call returned
    returned,          \* <<key, id>> for every record createInvoice returned
    formItems,         \* invoiceForm.lineItems: is control k valid?
    formFields,        \* invoiceForm: are its other controls all valid?
    validationErrors,  \* InvoiceGeneratorComponent.validationErrors
    handed,            \* invoices handed to generateInvoicePDF, in order
    rendering,         \* generateInvoicePDF calls not settled yet
    localStorage,      \* the Bill0_* entries of window.localStorage
    pendingSave,       \* the auto-save effect is scheduled to run
    formValues,        \* invoiceForm.value.lineItems
    calculatedInvoice, \* InvoiceGeneratorComponent.calculatedInvoice
    removedAt,         \* history: the index the last form event removed
    calcArgs,          \* the CalculationService call made last
    calcResult         \* what that call returned

ledger == <<invoices, products, customers, sellerProfile>>
formTotals == <<formValues, calculatedInvoice, removedAt>>
ui     == <<formItems, formFields, validationErrors, handed, rendering,
           formValues, calculatedInvoice, removedAt>>
persistence == <<localStorage, pendingSave>>
calc   == <<calcArgs, calcResult>>
vars   == <<invoices, products, customers, sellerProfile, heap, year,
            nextUuid, call, ret, returned, formItems, formFields,
            validationErrors,
            handed, rendering, localStorage, pendingSave, formValues,
            calculatedInvoice, removedAt, calcArgs, calcResult>>

\* --------------------------------------------------------------- Ledger
Undefined == [kind |-> "undefined", at |-> "undefined"]

\* `INV-${currentYear}-`
prefixOf(yr) == <<"I", "N", "V", "-">> \o toString(yr) \o <<"-">>

\* this.invoices().filter(inv => inv.invoiceNumber.startsWith(prefix))
yearlyInvoices(invs, yr) ==
    SelectSeq(invs, LAMBDA inv : startsWith(inv.invoiceNumber, prefixOf(yr)))

\* parseInt(inv.invoiceNumber.split('-')[2], 10)
seqOf(inv) ==
    LET parts == split(inv.invoiceNumber, "-")
    IN  IF Len(parts) < 3 THEN NaN ELSE parseInt(parts[3])

\* the forEach that keeps the largest parsed sequence number
RECURSIVE scanMaxSeq(_, _)
scanMaxSeq(invs, maxSeq) ==
    IF invs = <<>> THEN maxSeq
    ELSE LET seq == seqOf(Head(invs))
         IN  scanMaxSeq(Tail(invs),
                        IF seq # NaN /\ seq > maxSeq THEN seq ELSE maxSeq)

\* generateInvoiceNumber padding the sequence number to 3 digits
generateInvoiceNumber_pad3(invs, yr) ==
    LET maxSeq  == scanMaxSeq(yearlyInvoices(invs, yr), 0)
        nextSeq == maxSeq + 1
    IN  prefixOf(yr) \o padStart(toString(nextSeq), 3, "0")

\* BillingService.generateInvoiceNumber at calendar year yr
generateInvoiceNumber(invs, yr) ==
    LET maxSeq  == scanMaxSeq(yearlyInvoices(invs, yr), 0)
        nextSeq == maxSeq + 1
    IN  prefixOf(yr) \o padStart(toString(nextSeq), 4, "0")

\* findByKey comparing the key with the invoice id
findByKey_id(invs, key) ==
    LET hits == SelectSeq(invs, LAMBDA i : UuidKey(i.id) = key)
    IN  IF hits = <<>> THEN None ELSE Some(Head(hits))

\* this.invoices().find(i => i.idempotencyKey === idempotencyKey)
findByKey(invs, key) ==
    LET hits == SelectSeq(invs, LAMBDA i : i.idempotencyKey = key)
    IN  IF hits = <<>> THEN None ELSE Some(Head(hits))

\* newInvoice keeping the invoice number the caller generated beforehand
newInvoice_callerNumber(invs, profile, yr, id, data, key) ==
    [id             |-> id,
     invoiceNumber  |-> IF data.invoiceNumber = None
                        THEN generateInvoiceNumber(invs, yr)
                        ELSE The(data.invoiceNumber),
     status         |-> Draft,
     seller         |-> profile,
     buyer          |-> data.buyer,
     lineItems      |-> IF data.lineItems = None THEN <<>>
                        ELSE The(data.lineItems),
     totals         |-> data.totals,
     idempotencyKey |-> key]

\* newInvoice spreading the caller's data over the fields it assigns
newInvoice_spread(invs, profile, yr, id, data, key) ==
    [id             |-> id,
     invoiceNumber  |-> generateInvoiceNumber(invs, yr),
     status         |-> IF data.status = None THEN Draft
                        ELSE The(data.status),
     seller         |-> IF data.seller = Undefined THEN profile
                        ELSE data.seller,
     buyer          |-> data.buyer,
     lineItems      |-> IF data.lineItems = None THEN <<>>
                        ELSE The(data.lineItems),
     totals         |-> data.totals,
     idempotencyKey |-> key]

\* the object literal newInvoice; id is the uuidv4() drawn for it
newInvoice(invs, profile, yr, id, data, key) ==
    [id             |-> id,
     invoiceNumber  |-> generateInvoiceNumber(invs, yr),
     status         |-> Draft,
     seller         |-> profile,
     buyer          |-> data.buyer,
     lineItems      |-> IF data.lineItems = None THEN <<>>
                        ELSE The(data.lineItems),
     totals         |-> data.totals,
     idempotencyKey |-> key]

\* createInvoice that updates the stored record on a replay (an upsert)
createInvoiceCall_upsert(invs, profile, yr, uuid, data, key) ==
    LET hit == {i \in 1..Len(invs) : invs[i].idempotencyKey = key}
    IN  IF hit # {}
        THEN LET i   == CHOOSE j \in hit : TRUE
                 upd == [invs[i] EXCEPT !.buyer = data.buyer,
                                        !.totals = data.totals]
             IN  [invoices |-> [invs EXCEPT ![i] = upd], ret |-> upd,
                  uuid |-> uuid]
        ELSE LET inv == newInvoice(invs, profile, yr, uuid + 1, data, key)
             IN  [invoices |-> Append(invs, inv), ret |-> inv,
                  uuid |-> uuid + 1]

\* BillingService.createInvoice: the collection, the returned record and
\* the number of uuids drawn after the call
createInvoiceCall(invs, profile, yr, uuid, data, key) ==
    LET existing == findByKey(invs, key)
    IN  IF existing # None
        THEN [invoices |-> invs, ret |-> The(existing), uuid |-> uuid]
        ELSE LET inv == newInvoice(invs, profile, yr, uuid + 1, data, key)
             IN  [invoices |-> Append(invs, inv), ret |-> inv,
                  uuid |-> uuid + 1]

\* updateInvoiceStatus that takes the matching invoices out and pushes the
\* updated ones at the end
updateInvoiceStatusCall_moveToEnd(invs, id, status) ==
    SelectSeq(invs, LAMBDA inv : inv.id # id)
        \o [i \in 1..Len(SelectSeq(invs, LAMBDA inv : inv.id = id)) |->
               [SelectSeq(invs, LAMBDA inv : inv.id = id)[i]
                    EXCEPT !.status = status]]

\* updateInvoiceStatus that forgets to compare the id
updateInvoiceStatusCall_all(invs, id, status) ==
    [i \in 1..Len(invs) |-> [invs[i] EXCEPT !.status = status]]

\* updateInvoiceStatus that leaves a Void invoice as it is
updateInvoiceStatusCall_voidIsFinal(invs, id, status) ==
    [i \in 1..Len(invs) |->
        IF invs[i].id = id /\ invs[i].status # Void
        THEN [invs[i] EXCEPT !.status = status]
        ELSE invs[i]]

\* invs.map(inv => inv.id === id ? { ...inv, status } : inv)
updateInvoiceStatusCall(invs, id, status) ==
    [i \in 1..Len(invs) |->
        IF invs[i].id = id THEN [invs[i] EXCEPT !.status = status]
        ELSE invs[i]]

\* ---------------------------------------------------------- persistence
\* JSON.stringify of an Account held through reference r: the text holds
\* what the object shows now; a property that is undefined is left out
stringifyAccount(h, r) ==
    IF r = Null THEN [kind |-> "jsonNull", at |-> "null"]
    ELSE IF r = Undefined THEN [kind |-> "omitted", at |-> "omitted"]
    ELSE [kind |-> "jsonObject", at |-> Deref(h, r)]

\* JSON.parse of such a text: an object nobody else holds
parseAccount(j) ==
    IF j.kind = "jsonNull" THEN Null
    ELSE IF j.kind = "omitted" THEN Undefined
    ELSE Lit(j.at)

\* JSON.stringify(this.invoices())
stringifyInvoices(h, invs) ==
    [text |-> [i \in 1..Len(invs) |->
                  [invs[i] EXCEPT !.seller = stringifyAccount(h, invs[i].seller),
                                  !.buyer = stringifyAccount(h, invs[i].buyer)]]]

\* JSON.parse of the Bill0_invoices entry
parseInvoices(entry) ==
    [i \in 1..Len(entry.text) |->
        [entry.text[i] EXCEPT !.seller = parseAccount(entry.text[i].seller),
                              !.buyer = parseAccount(entry.text[i].buyer)]]

\* JSON.stringify and JSON.parse of an array of plain values
stringifyPlain(xs) == [text |-> xs]
parsePlain(entry)  == entry.text

\* a localStorage without Bill0_* entries: getItem returns null for each
EmptyStorage ==
    [Bill0_invoices |-> None, Bill0_products |-> None,
     Bill0_customers |-> None, Bill0_seller |-> None]

\* the body of the auto-save effect: the four setItem calls
saveToStorage(storage, h, invs, prods, custs, profile) ==
    [Bill0_invoices  |-> Some(stringifyInvoices(h, invs)),
     Bill0_products  |-> Some(stringifyPlain(prods)),
     Bill0_customers |-> Some(stringifyPlain(custs)),
     Bill0_seller    |-> IF profile # Null
                         THEN Some(stringifyAccount(h, profile))
                         ELSE storage.Bill0_seller]

\* loadFromStorage without the Bill0_seller entry
loadFromStorage_noSeller(storage) ==
    [invoices      |-> IF storage.Bill0_invoices = None THEN <<>>
                       ELSE parseInvoices(The(storage.Bill0_invoices)),
     products      |-> IF storage.Bill0_products = None THEN <<>>
                       ELSE parsePlain(The(storage.Bill0_products)),
     customers     |-> IF storage.Bill0_customers = None THEN <<>>
                       ELSE parsePlain(The(storage.Bill0_customers)),
     sellerProfile |-> Null]

\* BillingService.loadFromStorage over the signals' initial values
loadFromStorage(storage) ==
    [invoices      |-> IF storage.Bill0_invoices = None THEN <<>>
                       ELSE parseInvoices(The(storage.Bill0_invoices)),
     products      |-> IF storage.Bill0_products = None THEN <<>>
                       ELSE parsePlain(The(storage.Bill0_products)),
     customers     |-> IF storage.Bill0_customers = None THEN <<>>
                       ELSE parsePlain(The(storage.Bill0_customers)),
     sellerProfile |-> IF storage.Bill0_seller = None THEN Null
                       ELSE parseAccount(The(storage.Bill0_seller))]

\* a signal the effect reads was set or updated: the effect is scheduled
\* when the new value is not the old one (Object.is), and stays scheduled
signalled(changed) ==
    /\ pendingSave' = (pendingSave \/ changed)
    /\ localStorage' = localStorage

\* --------------------------------------------------- CalculationService
\* TaxType
Exclusive == "Exclusive"
Inclusive == "Inclusive"
TaxType   == {Exclusive, Inclusive}

\* a Partial<LineItem>: quantity, unitPrice.amount, discount.amount,
\* taxData and proration, each absent (None) or present; amounts are in
\* the smallest unit of the currency, taxData.rate is a decimal literal
LineItemOf(quantity, unitPrice, taxData, discount, proration) ==
    [quantity |-> quantity, unitPrice |-> unitPrice, taxData |-> taxData,
     discount |-> discount, proration |-> proration]

\* the tax added on top: (taxableAmount * rate) / 100, before rounding
exclusiveTax(taxableAmount, rate) ==
    fdiv(fmul(fromInt(taxableAmount), rate), fromInt(100))

\* the tax of a gross amount computed as if it were added on top
inclusiveTax_onTop(taxableAmount, rate) ==
    fdiv(fmul(fromInt(taxableAmount), rate), fromInt(100))

\* the tax baked in: grossAmount - grossAmount / (1 + rate / 100), before
\* rounding
inclusiveTax(taxableAmount, rate) ==
    LET grossAmount == fromInt(taxableAmount)
        baseNet     == fdiv(grossAmount,
                            fadd(fromInt(1), fdiv(rate, fromInt(100))))
    IN  fsub(grossAmount, baseNet)

\* baseAmount: price * qty, prorated when the item has a proration
baseAmountOf(item, amount) ==
    IF item.proration # None
    THEN MathRound(fmul(fromInt(amount), The(item.proration).factor))
    ELSE amount

\* taxAmount before rounding
taxOf(taxData, taxableAmount) ==
    IF taxData.type = Exclusive
    THEN exclusiveTax(taxableAmount, numberOf(taxData.rate))
    ELSE inclusiveTax(taxableAmount, numberOf(taxData.rate))

\* the LineItem calculateLineItem returns
costedItemOf(item, baseAmount, discountAmount, taxAmount) ==
    [quantity  |-> item.quantity,
     unitPrice |-> item.unitPrice,
     taxData   |-> item.taxData,
     discount  |-> item.discount,
     proration |-> item.proration,
     subtotal  |-> baseAmount,
     taxAmount |-> taxAmount,
     total     |-> IF The(item.taxData).type = Exclusive
                   THEN (baseAmount - discountAmount) + taxAmount
                   ELSE baseAmount - discountAmount]

costedFrom(item, baseAmount, discountAmount) ==
    costedItemOf(item, baseAmount, discountAmount,
                 MathRound(taxOf(The(item.taxData),
                                 baseAmount - discountAmount)))

\* CalculationService.calculateLineItem: the costed item, or None when the
\* call throws (taxData or unitPrice undefined)
calculateLineItemCall(item) ==
    IF item.taxData = None \/ item.unitPrice = None THEN None
    ELSE Some(costedFrom(
             item,
             baseAmountOf(item,
                 The(item.unitPrice)
                     * (IF item.quantity = None THEN 0 ELSE The(item.quantity))),
             IF item.discount # None THEN The(item.discount) ELSE 0))

\* the forEach skipping altogether the items that have no discount
RECURSIVE aggregate_skipUndiscounted(_, _)
aggregate_skipUndiscounted(items, acc) ==
    IF items = <<>> THEN acc
    ELSE LET item == Head(items)
         IN  aggregate_skipUndiscounted(Tail(items),
                 IF item.discount = None THEN acc
                 ELSE [subtotal      |-> acc.subtotal + item.subtotal,
                       totalTax      |-> acc.totalTax + item.taxAmount,
                       totalDiscount |-> acc.totalDiscount
                                             + The(item.discount),
                       grandTotal    |-> acc.grandTotal + item.total])

\* the forEach of calculateInvoice over the costed items
RECURSIVE aggregate(_, _)
aggregate(items, acc) ==
    IF items = <<>> THEN acc
    ELSE LET item == Head(items)
         IN  aggregate(Tail(items),
                 [subtotal      |-> acc.subtotal + item.subtotal,
                  totalTax      |-> acc.totalTax + item.taxAmount,
                  totalDiscount |-> IF item.discount # None
                                    THEN acc.totalDiscount + The(item.discount)
                                    ELSE acc.totalDiscount,
                  grandTotal    |-> acc.grandTotal + item.total])

\* the Invoice calculateInvoice returns
invoiceOf(calculatedItems, sums) ==
    [lineItems     |-> calculatedItems,
     subtotal      |-> sums.subtotal,
     totalTax      |-> sums.totalTax,
     totalDiscount |-> sums.totalDiscount,
     grandTotal    |-> sums.grandTotal]

aggregated(calculatedItems) ==
    invoiceOf(calculatedItems,
              aggregate(calculatedItems,
                        [subtotal |-> 0, totalTax |-> 0,
                         totalDiscount |-> 0, grandTotal |-> 0]))

mapped(costed) ==
    IF \E i \in 1..Len(costed) : costed[i] = None THEN None
    ELSE Some(aggregated([i \in 1..Len(costed) |-> The(costed[i])]))

\* CalculationService.calculateInvoice on invoiceData.lineItems (None when
\* absent): the costed items and the four totals, or None when
\* calculateLineItem throws on an item
calculateInvoiceCall(lineItems) ==
    mapped([i \in 1..Len(IF lineItems = None THEN <<>> ELSE The(lineItems))
               |-> calculateLineItemCall(The(lineItems)[i])])

\* A Date that is a whole day: day n of the local calendar, at midnight.
\* Daylight saving time begins on day DstDay, so that from then on local
\* midnight comes an hour earlier than a multiple of 24 hours
DstDay == 2

\* Date.prototype.getTime(): milliseconds
getTime(day) ==
    fmul(fromInt(24 * day - (IF day >= DstDay THEN 1 ELSE 0)),
         fromInt(3600000))

\* Math.round(Math.abs((b.getTime() - a.getTime()) / oneDay))
roundedDays(a, b) ==
    MathRound(fabs(fdiv(fsub(getTime(b), getTime(a)),
                        fromInt(24 * 60 * 60 * 1000))))

\* the ProrationDetails calculateProration returns
prorationDetails(startDate, endDate, totalDays, daysOfUse) ==
    [startDate |-> startDate, endDate |-> endDate,
     totalDaysInPeriod |-> totalDays, daysOfUse |-> daysOfUse,
     factor |-> fdiv(fromInt(daysOfUse), fromInt(totalDays))]

prorationOver(startDate, endDate, totalDays, effectiveStart, effectiveEnd) ==
    prorationDetails(startDate, endDate, totalDays,
        IF ~fless(getTime(effectiveEnd), getTime(effectiveStart))
        THEN roundedDays(effectiveStart, effectiveEnd) + 1 ELSE 0)

\* calculateProration counting the days of use outside the period too
calculateProrationCall_unclipped(startDate, endDate, periodStart, periodEnd) ==
    prorationOver(startDate, endDate, roundedDays(periodStart, periodEnd) + 1,
                  startDate, endDate)

\* CalculationService.calculateProration
calculateProrationCall(startDate, endDate, periodStart, periodEnd) ==
    prorationOver(startDate, endDate, roundedDays(periodStart, periodEnd) + 1,
        IF fless(getTime(periodStart), getTime(startDate))
        THEN startDate ELSE periodStart,
        IF fless(getTime(endDate), getTime(periodEnd))
        THEN endDate ELSE periodEnd)

\* ------------------------------------------------------------ pdf-helper
\* CurrencyCode, each code a string
CurrencyCode ==
    {<<"U", "S", "D">>, <<"E", "U", "R">>, <<"I", "N", "R">>,
     <<"G", "B", "P">>, <<"A", "E", "D">>, <<"S", "A", "R">>}

\* the double x in hundredths, rounded to the nearest, a tie away from zero
\* (x * 100 is taken exactly, as the formatter works on the decimal
\* expansion of x)
hundredthsOf(x) == MathRound([s |-> 1, m |-> bnMulSmall(x.m, 100, 0), e |-> x.e])

\* the digits s with a comma before every group of three from the right
RECURSIVE groupThrees(_)
groupThrees(s) ==
    IF Len(s) <= 3 THEN s
    ELSE groupThrees(SubSeq(s, 1, Len(s) - 3))
             \o <<",">> \o SubSeq(s, Len(s) - 2, Len(s))

\* (x).toFixed(2)
toFixed2(x) ==
    The({(IF x.s < 0 /\ h > 0 THEN <<"-">> ELSE <<>>)
             \o toString(h \div 100) \o <<".">>
             \o padStart(toString(h % 100), 2, "0") :
         h \in {hundredthsOf(x)}})

\* new Intl.NumberFormat('en-US', {style: 'decimal', minimumFractionDigits:
\* 2, maximumFractionDigits: 2}).format(x)
numberFormat(x) ==
    The({(IF x.s < 0 /\ h > 0 THEN <<"-">> ELSE <<>>)
             \o groupThrees(toString(h \div 100)) \o <<".">>
             \o padStart(toString(h % 100), 2, "0") :
         h \in {hundredthsOf(x)}})

\* formatMoney returning val, the toFixed(2) string it computes first
formatMoneyCall_toFixed(amount, currency) ==
    currency \o <<" ">> \o toFixed2(fdiv(fromInt(amount), fromInt(100)))

\* formatMoney(amount, currency)
formatMoneyCall(amount, currency) ==
    currency \o <<" ">> \o numberFormat(fdiv(fromInt(amount), fromInt(100)))

\* ------------------------------------------------ what the callers pass
\* the amounts formatMoney is given, in the smallest unit of the currency
Amounts ==
    0..MaxAmount
        \cup {-150, 999, 1000, 1050, 50000, 99999, 100000, 12345678, 100000000,
              2147483647}

\* the days the dates given to calculateProration fall on
Days == 0..MaxDay \cup {14, 30}

\* a ProrationDetails of d days of use in a period of n days
ProrationOf(d, n) ==
    [daysOfUse |-> d, totalDaysInPeriod |-> n,
     factor |-> fdiv(fromInt(d), fromInt(n))]

\* the line items calculateLineItem is called with
Quantities == 0..MaxQuantity
Prices     == {0, 17, 45, 50, 1000, 2750}
Discounts  == {0, 3, 200}
Rates      == {<<0, 1>>, <<1, 1>>, <<14, 10>>, <<15, 1>>, <<36, 1>>, <<100, 1>>}
Prorations ==
    {ProrationOf(15, 31), ProrationOf(1, 2), ProrationOf(0, 30),
     ProrationOf(7, 10)}

Optional(S) == {None} \cup {Some(v) : v \in S}

LineItems ==
    {LineItemOf(q, p, t, d, pr) :
        q \in Optional(Quantities), p \in Optional(Prices),
        t \in Optional([rate : Rates, type : TaxType]),
        d \in Optional(Discounts), pr \in Optional(Prorations)}

\* one unit priced amount, with tax of the given type at the integer rate r%
SingleItem(amount, r, type) ==
    LineItemOf(Some(1), Some(amount),
               Some([rate |-> <<r, 1>>, type |-> type]), None, None)

\* the integer tax rates of a round trip
RoundTripRates == 0..100

\* the line items of the invoices calculateInvoice is called with
InvoiceItems ==
    {LineItemOf(Some(q), Some(p), Some(t), d, None) :
        q \in {1, 2}, p \in {17, 1000},
        t \in {[rate |-> <<15, 1>>, type |-> Exclusive],
               [rate |-> <<36, 1>>, type |-> Inclusive]},
        d \in Optional({3, 200})}

\* line items that all have a discount field, as the invoice form builds
\* them
DiscountedItems ==
    {LineItemOf(Some(1), Some(p), Some(t), Some(d), None) :
        p \in {17, 34, 366},
        t \in {[rate |-> <<15, 1>>, type |-> Exclusive],
               [rate |-> <<36, 1>>, type |-> Inclusive],
               [rate |-> <<0, 1>>, type |-> Inclusive]},
        d \in {0, 200}}

\* the sequences over S of length n, and of length up to n
RECURSIVE SeqsOfLen(_, _)
SeqsOfLen(S, n) ==
    IF n = 0 THEN {<<>>}
    ELSE {Append(q, x) : q \in SeqsOfLen(S, n - 1), x \in S}

SeqsUpTo(S, n) == UNION {SeqsOfLen(S, k) : k \in 0..n}

\* the value of the group addLineItem pushes: the description is empty
\* (FALSE) or filled, the numbers are decimal literals as typed, amounts in
\* major units
NewLineItem ==
    [description |-> FALSE, quantity |-> <<1, 1>>, unitPrice |-> <<0, 1>>,
     taxRate |-> <<0, 1>>, taxType |-> Exclusive, discount |-> <<0, 1>>]

\* what the user types into the fields of a line item
FieldValues ==
    [quantity  |-> {<<1, 1>>, <<2, 1>>},
     unitPrice |-> {<<0, 1>>, <<1005, 100>>},
     taxRate   |-> {<<0, 1>>, <<15, 1>>},
     taxType   |-> TaxType,
     discount  |-> {<<0, 1>>, <<3, 1>>}]

\* Account values
AccountValues == {"Acme", "Bolt"}

\* the least Partial<Invoice> a caller can pass
MinimalData ==
    [id |-> None, invoiceNumber |-> None, status |-> None,
     seller |-> Undefined, buyer |-> Ref("o1"), lineItems |-> None,
     totals |-> Some(100)]

\* a Partial<Invoice> that fills in every field createInvoice assigns
\* itself; its id is one the caller made up (uuidv4() never draws 0)
FullData ==
    [id |-> Some(0),
     invoiceNumber |-> Some(prefixOf(FirstYear) \o <<"0", "0", "0", "7">>),
     status |-> Some(Paid), seller |-> Ref("o2"), buyer |-> Ref("o2"),
     lineItems |-> Some(<<"item">>), totals |-> Some(200)]

ApiData == {MinimalData, FullData}

\* the ids updateInvoiceStatus is called with: every uuid drawn so far (the
\* stored ids and the ids of the invoices handed to the renderer) and one
\* that was never drawn
KnownIds == 1..(nextUuid + 1)

\* ------------------------------------------- InvoiceGeneratorComponent
\* this.invoiceForm.valid && this.calculatedInvoice()
FormValid ==
    /\ formFields
    /\ \A k \in 1..Len(formItems) : formItems[k]
    /\ calculatedInvoice # None

\* the validators of a line item group: required description, quantity at
\* least 1, unitPrice, taxRate and discount at least 0
groupValid(value) ==
    /\ value.description
    /\ value.quantity[1] >= value.quantity[2]
    /\ value.unitPrice[1] >= 0
    /\ value.taxRate[1] >= 0
    /\ value.discount[1] >= 0

\* toCents inside recalculate: Math.round((val || 0) * 100)
toCents(val) == MathRound(fmul(numberOf(val), fromInt(100)))

\* recalculate(formValue): what calculatedInvoice is set to (the ids drawn
\* for the items are not followed; quantities are whole numbers)
recalculate(lineItems) ==
    calculateInvoiceCall(Some(
        [k \in 1..Len(lineItems) |->
            LineItemOf(Some(lineItems[k].quantity[1]),
                       Some(toCents(lineItems[k].unitPrice)),
                       Some([rate |-> lineItems[k].taxRate,
                             type |-> lineItems[k].taxType]),
                       Some(toCents(lineItems[k].discount)), None)]))

\* fullInvoice with an idempotency key that is the same at every call
fullInvoiceOf_sameKey(invs, yr, uuid) ==
    [id             |-> uuid + 1,
     invoiceNumber  |-> generateInvoiceNumber(invs, yr),
     status         |-> Finalized,
     idempotencyKey |-> UuidKey(0),
     seller         |-> Lit("FormSeller"),
     buyer          |-> Lit("FormBuyer"),
     lineItems      |-> [k \in 1..Len(formItems) |-> "item"],
     totals         |-> Some(100 * Len(formItems))]

\* the object literal fullInvoice, built over calculatedInvoice()
fullInvoiceOf(invs, yr, uuid) ==
    [id             |-> uuid + 1,
     invoiceNumber  |-> generateInvoiceNumber(invs, yr),
     status         |-> Finalized,
     idempotencyKey |-> UuidKey(uuid + 2),
     seller         |-> Lit("FormSeller"),
     buyer          |-> Lit("FormBuyer"),
     lineItems      |-> [k \in 1..Len(formItems) |-> "item"],
     totals         |-> Some(100 * Len(formItems))]

\* an Invoice passed where a Partial<Invoice> is expected
asData(inv) ==
    [id |-> Some(inv.id), invoiceNumber |-> Some(inv.invoiceNumber),
     status |-> Some(inv.status), seller |-> inv.seller, buyer |-> inv.buyer,
     lineItems |-> Some(inv.lineItems), totals |-> inv.totals]

\* A message is the tuple of its parts.
\* getFormValidationErrors: an entry for the other controls when one of
\* them is invalid
fieldErrors(fields) ==
    IF fields THEN <<>> ELSE <<<<"Field is missing or invalid">>>>

\* lineItemErrors stopping at the first invalid line item
lineItemErrors_firstOnly(items, index) ==
    IF \A k \in index..Len(items) : items[k] THEN <<>>
    ELSE <<<<"Line Item #",
             CHOOSE k \in index..Len(items) :
                 ~items[k] /\ \A j \in index..(k - 1) : items[j]>>>>

\* getFormValidationErrors: one entry per invalid line item
RECURSIVE lineItemErrors(_, _)
lineItemErrors(items, index) ==
    IF index > Len(items) THEN <<>>
    ELSE (IF items[index] THEN <<>> ELSE <<<<"Line Item #", index>>>>)
             \o lineItemErrors(items, index + 1)

\* what the else branch of generatePDF sets validationErrors to
formErrors(fields, items) ==
    IF fieldErrors(fields) \o lineItemErrors(items, 1) = <<>>
           /\ ~(fields /\ \A k \in 1..Len(items) : items[k])
    THEN <<<<"Please check all required fields.">>>>
    ELSE fieldErrors(fields) \o lineItemErrors(items, 1)

\* ------------------------------------------------------------- actions
Init ==
    /\ invoices = <<>>
    /\ products = <<>>
    /\ customers = <<>>
    /\ sellerProfile = Null
    /\ heap = [o \in Objs |-> IF o = "o1" THEN "Acme" ELSE "Bolt"]
    /\ year = FirstYear
    /\ nextUuid = 0
    /\ call = None
    /\ ret = None
    /\ returned = {}
    /\ formItems = <<FALSE>>
    /\ formFields = TRUE
    /\ validationErrors = <<>>
    /\ handed = <<>>
    /\ rendering = {}
    /\ localStorage = EmptyStorage
    /\ pendingSave = TRUE
    /\ formValues = <<NewLineItem>>
    /\ calculatedInvoice = None
    /\ removedAt = None
    /\ calcArgs = None
    /\ calcResult = None

\* BillingService.createInvoice(data, key), called by an API caller
createInvoice(data, key) ==
    /\ LET r == createInvoiceCall(invoices, sellerProfile, year, nextUuid,
                                  data, key)
       IN  /\ invoices' = r.invoices
           /\ nextUuid' = r.uuid
           /\ ret' = Some(r.ret)
           /\ returned' = returned \cup {<<key, r.ret.id>>}
    /\ call' = Some([data |-> data, key |-> key])
    /\ signalled(invoices' # invoices)
    /\ UNCHANGED <<calc, products, customers, sellerProfile, heap, year, ui>>

\* generateInvoiceNumber that reserves the number it returns, by a
\* placeholder in the collection
generateInvoiceNumberCalled_reserving ==
    /\ calcArgs' = Some([fn |-> "generateInvoiceNumber",
                         arg |-> [count |-> Len(invoices), year |-> year]])
    /\ calcResult' = Some(generateInvoiceNumber(invoices, year))
    /\ invoices' = Append(invoices,
                          newInvoice(invoices, Null, year, 0, MinimalData,
                                     <<"reserved", Len(invoices)>>))
    /\ UNCHANGED <<products, customers, sellerProfile, heap, year, nextUuid,
                   call, ret, returned, ui, persistence>>

\* BillingService.generateInvoiceNumber(), called by an API caller; what is
\* kept of the call is the number of invoices and the year it was made at
generateInvoiceNumberCalled ==
    /\ calcArgs' = Some([fn |-> "generateInvoiceNumber",
                         arg |-> [count |-> Len(invoices), year |-> year]])
    /\ calcResult' = Some(generateInvoiceNumber(invoices, year))
    /\ UNCHANGED <<ledger, heap, year, nextUuid, call, ret, returned, ui,
                   persistence>>

\* BillingService.updateInvoiceStatus(id, status)
updateInvoiceStatus(id, status) ==
    /\ invoices' = updateInvoiceStatusCall(invoices, id, status)
    /\ call' = None
    /\ ret' = None
    /\ signalled(TRUE)
    /\ UNCHANGED <<calc, products, customers, sellerProfile, heap, year, nextUuid,
                   returned, ui>>

\* BillingService.addProduct(product)
addProduct(product) ==
    /\ products' = Append(products, product)
    /\ call' = None
    /\ ret' = None
    /\ signalled(TRUE)
    /\ UNCHANGED <<calc, invoices, customers, sellerProfile, heap, year, nextUuid,
                   returned, ui>>

\* saveSellerProfile that also rewrites the seller of the stored invoices
saveSellerProfile_retroactive(o) ==
    /\ sellerProfile' = Ref(o)
    /\ invoices' = [i \in 1..Len(invoices) |->
                       [invoices[i] EXCEPT !.seller = Ref(o)]]
    /\ call' = None
    /\ ret' = None
    /\ signalled(TRUE)
    /\ UNCHANGED <<calc, products, customers, heap, year, nextUuid, returned, ui>>

\* BillingService.saveSellerProfile(profile): profile is the caller's object
saveSellerProfile(o) ==
    /\ sellerProfile' = Ref(o)
    /\ call' = None
    /\ ret' = None
    /\ signalled(sellerProfile' # sellerProfile)
    /\ UNCHANGED <<calc, invoices, products, customers, heap, year, nextUuid,
                   returned, ui>>

\* the calendar year advances
newYear ==
    /\ year' = year + 1
    /\ UNCHANGED <<calc, ledger, heap, nextUuid, call, ret, returned, ui,
                   persistence>>

\* generatePDF on a valid form, up to the await of generateInvoicePDF; the
\* record createInvoice returns is dropped (logoUrl, which the confirm()
\* dialog may set, only reaches the renderer)
generatePDFValid ==
    /\ FormValid
    /\ LET fullInvoice == fullInvoiceOf(invoices, year, nextUuid)
           r == createInvoiceCall(invoices, sellerProfile, year,
                                  nextUuid + 2, asData(fullInvoice),
                                  fullInvoice.idempotencyKey)
       IN  /\ invoices' = r.invoices
           /\ nextUuid' = r.uuid
           /\ handed' = Append(handed, fullInvoice)
           /\ rendering' = rendering \cup {fullInvoice.idempotencyKey}
    /\ validationErrors' = <<>>
    /\ call' = None
    /\ ret' = None
    /\ signalled(TRUE)
    /\ UNCHANGED <<calc, products, customers, sellerProfile, heap, year, returned,
                   formItems, formFields, formTotals>>

\* generatePDF on an invalid form
generatePDFInvalid ==
    /\ ~FormValid
    /\ validationErrors' = formErrors(formFields, formItems)
    /\ call' = None
    /\ ret' = None
    /\ UNCHANGED <<calc, ledger, heap, year, nextUuid, returned, formItems,
                   formFields, handed, rendering, persistence, formTotals>>

\* the promise of generateInvoicePDF settles and removes the invoice again
\* when it is rejected
renderSettled_rollback(key, outcome) ==
    /\ key \in rendering
    /\ rendering' = rendering \ {key}
    /\ validationErrors' =
           IF outcome = "resolved" THEN validationErrors
           ELSE <<<<"Failed to generate PDF: ",
                    IF outcome = "Error" THEN "error.message"
                    ELSE "Unknown error">>>>
    /\ invoices' =
           IF outcome = "resolved" THEN invoices
           ELSE SelectSeq(invoices, LAMBDA inv : inv.idempotencyKey # key)
    /\ UNCHANGED <<calc, products, customers, sellerProfile, heap, year,
                   nextUuid, call, ret, returned, formItems, formFields,
                   handed, persistence, formTotals>>

\* the promise of generateInvoicePDF settles: "resolved", rejected with an
\* Error ("Error") or rejected with any other value ("other"); the catch
\* block sets one message and touches nothing else
renderSettled(key, outcome) ==
    /\ key \in rendering
    /\ rendering' = rendering \ {key}
    /\ validationErrors' =
           IF outcome = "resolved" THEN validationErrors
           ELSE <<<<"Failed to generate PDF: ",
                    IF outcome = "Error" THEN "error.message"
                    ELSE "Unknown error">>>>
    /\ UNCHANGED <<calc, ledger, heap, year, nextUuid, call, ret, returned,
                   formItems, formFields, handed, persistence, formTotals>>

\* addLineItem: the new control has an empty description, so it is
\* invalid; the push emits valueChanges, which runs recalculate
addLineItem ==
    /\ formItems' = Append(formItems, FALSE)
    /\ formValues' = Append(formValues, NewLineItem)
    /\ calculatedInvoice' = recalculate(formValues')
    /\ removedAt' = None
    /\ UNCHANGED <<calc, ledger, heap, year, nextUuid, call, ret, returned,
                   formFields, validationErrors, handed, rendering,
                   persistence>>

\* removeLineItem removing the control without emitting valueChanges
removeLineItem_silent(index) ==
    /\ index + 1 \in 1..Len(formItems)
    /\ formItems' = SubSeq(formItems, 1, index)
                        \o SubSeq(formItems, index + 2, Len(formItems))
    /\ formValues' = SubSeq(formValues, 1, index)
                         \o SubSeq(formValues, index + 2, Len(formValues))
    /\ removedAt' = Some(index)
    /\ UNCHANGED <<calc, ledger, heap, year, nextUuid, call, ret, returned,
                   formFields, validationErrors, handed, rendering,
                   persistence, calculatedInvoice>>

\* removeLineItem(index), index counted from 0
removeLineItem(index) ==
    /\ index + 1 \in 1..Len(formItems)
    /\ formItems' = SubSeq(formItems, 1, index)
                        \o SubSeq(formItems, index + 2, Len(formItems))
    /\ formValues' = SubSeq(formValues, 1, index)
                         \o SubSeq(formValues, index + 2, Len(formValues))
    /\ calculatedInvoice' = recalculate(formValues')
    /\ removedAt' = Some(index)
    /\ UNCHANGED <<calc, ledger, heap, year, nextUuid, call, ret, returned,
                   formFields, validationErrors, handed, rendering,
                   persistence>>

\* the user edits the description of line item k, filling it (valid) or
\* emptying it
editLineItem(k, valid) ==
    /\ k \in 1..Len(formItems)
    /\ formValues' = [formValues EXCEPT ![k].description = valid]
    /\ formItems' = [formItems EXCEPT ![k] = groupValid(formValues'[k])]
    /\ calculatedInvoice' = recalculate(formValues')
    /\ removedAt' = None
    /\ UNCHANGED <<calc, ledger, heap, year, nextUuid, call, ret, returned,
                   formFields, validationErrors, handed, rendering,
                   persistence>>

\* the user types value, which it did not hold, into the field of line item
\* k: quantity, unitPrice, taxRate, taxType or discount
editField(k, field, value) ==
    /\ k \in 1..Len(formItems)
    /\ formValues[k][field] # value
    /\ formValues' = [formValues EXCEPT ![k][field] = value]
    /\ formItems' = [formItems EXCEPT ![k] = groupValid(formValues'[k])]
    /\ calculatedInvoice' = recalculate(formValues')
    /\ removedAt' = None
    /\ UNCHANGED <<calc, ledger, heap, year, nextUuid, call, ret, returned,
                   formFields, validationErrors, handed, rendering,
                   persistence>>

\* the user edits a control of the form outside the line items (a date,
\* an email address): the controls are then all valid, or not
editFormField(valid) ==
    /\ formFields' = valid
    /\ calculatedInvoice' = recalculate(formValues)
    /\ removedAt' = None
    /\ UNCHANGED <<calc, ledger, heap, year, nextUuid, call, ret, returned,
                   formItems, formValues, validationErrors, handed,
                   rendering, persistence>>

\* a caller edits in place an Account object it passed to the ledger
editAccount(o, v) ==
    /\ heap' = [heap EXCEPT ![o] = v]
    /\ UNCHANGED <<calc, ledger, year, nextUuid, call, ret, returned, ui,
                   persistence>>

\* the auto-save effect runs
autoSave ==
    /\ pendingSave
    /\ localStorage' = saveToStorage(localStorage, heap, invoices, products,
                                     customers, sellerProfile)
    /\ pendingSave' = FALSE
    /\ UNCHANGED <<calc, ledger, heap, year, nextUuid, call, ret, returned, ui>>

\* the page is loaded again: a new BillingService is constructed on the
\* localStorage the previous one left, its effect scheduled for a first
\* run; the form is new and the pending renders are gone
constructor ==
    /\ LET loaded == loadFromStorage(localStorage)
       IN  /\ invoices' = loaded.invoices
           /\ products' = loaded.products
           /\ customers' = loaded.customers
           /\ sellerProfile' = loaded.sellerProfile
    /\ pendingSave' = TRUE
    /\ call' = None
    /\ ret' = None
    /\ formItems' = <<FALSE>>
    /\ formFields' = TRUE
    /\ formValues' = <<NewLineItem>>
    /\ calculatedInvoice' = None
    /\ removedAt' = None
    /\ validationErrors' = <<>>
    /\ rendering' = {}
    /\ UNCHANGED <<calc, heap, year, nextUuid, returned, handed, localStorage>>

\* CalculationService.calculateLineItem(item)
calculateLineItem(item) ==
    /\ calcArgs' = Some([fn |-> "calculateLineItem", arg |-> item])
    /\ calcResult' = calculateLineItemCall(item)
    /\ UNCHANGED <<ledger, heap, year, nextUuid, call, ret, returned, ui,
                   persistence>>

\* CalculationService.calculateInvoice(invoiceData)
calculateInvoice(lineItems) ==
    /\ calcArgs' = Some([fn |-> "calculateInvoice", arg |-> lineItems])
    /\ calcResult' = calculateInvoiceCall(lineItems)
    /\ UNCHANGED <<ledger, heap, year, nextUuid, call, ret, returned, ui,
                   persistence>>

\* CalculationService.calculateProration(startDate, endDate, periodStart,
\* periodEnd)
calculateProration(startDate, endDate, periodStart, periodEnd) ==
    /\ calcArgs' = Some([fn |-> "calculateProration",
                         arg |-> [startDate |-> startDate,
                                  endDate |-> endDate,
                                  periodStart |-> periodStart,
                                  periodEnd |-> periodEnd]])
    /\ calcResult' = Some(calculateProrationCall(startDate, endDate,
                                                 periodStart, periodEnd))
    /\ UNCHANGED <<ledger, heap, year, nextUuid, call, ret, returned, ui,
                   persistence>>

\* formatMoney(amount, currency) of pdf-helper
formatMoney(amount, currency) ==
    /\ calcArgs' = Some([fn |-> "formatMoney",
                         arg |-> [amount |-> amount, currency |-> currency]])
    /\ calcResult' = Some(formatMoneyCall(amount, currency))
    /\ UNCHANGED <<ledger, heap, year, nextUuid, call, ret, returned, ui,
                   persistence>>

\* ------------------------------------------------------- specifications
\* the collection holds fewer than n invoices
room(n) == Len(invoices) < n

\* some invoice of the collection carries key
keyUsed(key) == \E i \in 1..Len(invoices) : invoices[i].idempotencyKey = key

\* uuidv4() may still be called
uuidsLeft == nextUuid < MaxUuids

\* the calendar may still advance
yearLeft == year < FirstYear + YearSpan

\* the Ledger under its API callers
Next ==
    \/ \E data \in ApiData, key \in CallerKeys :
           (room(MaxInvoices) \/ keyUsed(key)) /\ createInvoice(data, key)
    \/ \E id \in KnownIds, status \in InvoiceStatus :
           updateInvoiceStatus(id, status)
    \/ \E product \in {"p1"} :
           Len(products) < MaxProducts /\ addProduct(product)
    \/ \E o \in Objs : saveSellerProfile(o)
    \/ yearLeft /\ newYear

Spec == Init /\ [][Next]_vars

\* the same with callers that edit in place the Account objects they passed
NextAlias == Next \/ \E o \in Objs, v \in AccountValues : editAccount(o, v)

SpecAlias == Init /\ [][NextAlias]_vars

\* the invoice form and API callers on the one shared collection
NextUI ==
    \/ \E data \in ApiData, key \in CallerKeys :
           (room(MaxInvoices) \/ keyUsed(key)) /\ createInvoice(data, key)
    \/ \E o \in Objs : saveSellerProfile(o)
    \/ yearLeft /\ newYear
    \/ room(MaxInvoices) /\ generatePDFValid
    \/ generatePDFInvalid
    \/ \E key \in rendering, outcome \in {"resolved", "Error", "other"} :
           renderSettled(key, outcome)
    \/ Len(formItems) < MaxItems /\ addLineItem
    \/ \E index \in 0..(MaxItems - 1) : removeLineItem(index)
    \/ \E k \in 1..MaxItems, valid \in BOOLEAN : editLineItem(k, valid)

SpecUI == Init /\ [][NextUI]_vars

\* createInvoice calls alone, each with the next unused key or a used one,
\* while the calendar advances
NextNumbering ==
    \/ \E i \in 1..(Len(invoices) + 1) :
           /\ room(MaxNumbered) \/ keyUsed(CallerKey(i))
           /\ createInvoice(MinimalData, CallerKey(i))
    \/ yearLeft /\ newYear

SpecNumbering == Init /\ [][NextNumbering]_vars

\* the Ledger on its store: API callers that edit their Account objects in
\* place, the auto-save effect, and page loads
NextStore ==
    \/ \E key \in CallerKeys :
           /\ (room(MaxInvoices) /\ uuidsLeft) \/ keyUsed(key)
           /\ createInvoice(MinimalData, key)
    \/ \E id \in KnownIds : updateInvoiceStatus(id, Paid)
    \/ \E product \in {"p1"} :
           Len(products) < MaxProducts /\ addProduct(product)
    \/ \E o \in Objs : saveSellerProfile(o)
    \/ \E v \in AccountValues : editAccount("o1", v)
    \/ autoSave
    \/ constructor

SpecStore == Init /\ [][NextStore]_vars

\* the invoice form alone: line items added, removed and edited
NextForm ==
    \/ Len(formItems) < MaxRows /\ addLineItem
    \/ \E index \in 0..(MaxRows - 1) : removeLineItem(index)
    \/ \E k \in 1..MaxRows, field \in DOMAIN FieldValues :
           \E value \in FieldValues[field] : editField(k, field, value)

SpecForm == Init /\ [][NextForm]_vars

\* the invoice form alone, filled in and submitted: line items added,
\* removed and described, the other controls edited, generatePDF called
NextSubmit ==
    \/ room(MaxInvoices) /\ generatePDFValid
    \/ generatePDFInvalid
    \/ \E key \in rendering, outcome \in {"resolved", "Error", "other"} :
           renderSettled(key, outcome)
    \/ Len(formItems) < MaxRows /\ addLineItem
    \/ \E index \in 0..(MaxRows - 1) : removeLineItem(index)
    \/ \E k \in 1..MaxRows, valid \in BOOLEAN : editLineItem(k, valid)
    \/ \E valid \in BOOLEAN : editFormField(valid)

SpecSubmit == Init /\ [][NextSubmit]_vars

\* API callers that ask for the next invoice number, before and between
\* the commits of API callers and of the form
NextReserve ==
    \/ \E data \in ApiData, key \in CallerKeys :
           (room(MaxInvoices) \/ keyUsed(key)) /\ createInvoice(data, key)
    \/ yearLeft /\ newYear
    \/ \E k \in 1..MaxItems, valid \in BOOLEAN : editLineItem(k, valid)
    \/ room(MaxInvoices) /\ generatePDFValid
    \/ generateInvoiceNumberCalled

SpecReserve == Init /\ [][NextReserve]_vars

\* no CalculationService call was made yet
notCalled == calcArgs = None

\* one call of calculateLineItem, on any line item of LineItems
NextLineItem == \E item \in LineItems : notCalled /\ calculateLineItem(item)

SpecLineItem == Init /\ [][NextLineItem]_vars

\* one call of calculateInvoice, without lineItems or on any sequence of up
\* to MaxLines items of InvoiceItems
NextInvoice ==
    \E lineItems \in Optional(SeqsUpTo(InvoiceItems, MaxLines)) :
        notCalled /\ calculateInvoice(lineItems)

SpecInvoice == Init /\ [][NextInvoice]_vars

\* one call of calculateInvoice, on any sequence of up to MaxLines items of
\* DiscountedItems
NextTotals ==
    \E lineItems \in SeqsUpTo(DiscountedItems, MaxLines) :
        notCalled /\ calculateInvoice(Some(lineItems))

SpecTotals == Init /\ [][NextTotals]_vars

\* the call made last was calculateLineItem on a gross amount with
\* Inclusive tax
grossCosted ==
    /\ calcArgs # None
    /\ The(calcArgs).fn = "calculateLineItem"
    /\ The(The(calcArgs).arg.taxData).type = Inclusive

\* a round trip: calculateLineItem with Inclusive tax on a gross amount,
\* then with Exclusive tax at the same rate on the gross less the tax found
NextRoundTrip ==
    \/ \E G \in 0..MaxGross, r \in RoundTripRates :
           notCalled /\ calculateLineItem(SingleItem(G, r, Inclusive))
    \/ /\ grossCosted
       /\ calculateLineItem(
              SingleItem(The(The(calcArgs).arg.unitPrice)
                             - The(calcResult).taxAmount,
                         The(The(calcArgs).arg.taxData).rate[1], Exclusive))

SpecRoundTrip == Init /\ [][NextRoundTrip]_vars

\* one call of calculateProration, on any four whole-day dates
NextProration ==
    \E startDate \in Days, endDate \in Days, periodStart \in Days,
       periodEnd \in Days :
        notCalled
            /\ calculateProration(startDate, endDate, periodStart, periodEnd)

SpecProration == Init /\ [][NextProration]_vars

\* one call of formatMoney, on any amount and currency
NextFormat ==
    \E amount \in Amounts, currency \in CurrencyCode :
        notCalled /\ formatMoney(amount, currency)

SpecFormat == Init /\ [][NextFormat]_vars

\* --------------------------------------------------------- properties
\* the positions of the invoices that carry key
holders(key) == {i \in 1..Len(invoices) : invoices[i].idempotencyKey = key}

\* n written with exactly four decimal digits (n < 10000)
fourDigits(n) ==
    <<DigitChars[((n \div 1000) % 10) + 1], DigitChars[((n \div 100) % 10) + 1],
      DigitChars[((n \div 10) % 10) + 1], DigitChars[(n % 10) + 1]>>

\* INV-{year}-{n zero-padded to 4 digits}
expectedNumber(yr, n) ==
    <<"I", "N", "V", "-">> \o fourDigits(yr) \o <<"-">> \o fourDigits(n)

\* the calendar years a run goes through
Years == FirstYear..(FirstYear + YearSpan)

\* the year and the sequence number an invoice number INV-YYYY-N.. shows
yearShown(number) == digitsValue(SubSeq(number, 5, 8))
seqShown(number)  == digitsValue(SubSeq(number, 10, Len(number)))

\* the invoice numbers of year yr, in the order of the collection
RECURSIVE numbersOf(_, _)
numbersOf(invs, yr) ==
    IF invs = <<>> THEN <<>>
    ELSE (IF yearShown(Head(invs).invoiceNumber) = yr
          THEN <<Head(invs).invoiceNumber>> ELSE <<>>)
             \o numbersOf(Tail(invs), yr)

\* the fields of a stored invoice other than its status
sameButStatus(a, b) == [a EXCEPT !.status = Draft] = [b EXCEPT !.status = Draft]

\* C1: no two invoices share an idempotencyKey; the calls made with one key
\* added exactly one invoice in total and all returned that invoice's id.
C1_OneInvoicePerKey ==
    /\ \A i, j \in 1..Len(invoices) :
           invoices[i].idempotencyKey = invoices[j].idempotencyKey => i = j
    /\ \A key \in {p[1] : p \in returned} :
           /\ Cardinality(holders(key)) = 1
           /\ \A p \in returned :
                  p[1] = key => \A i \in holders(key) : invoices[i].id = p[2]

\* a key was replayed: the call made last returned the first of two invoices
C1_Witness ==
    /\ Len(invoices) = 2
    /\ ret = Some(invoices[1])
    /\ returned # {}

\* C2: every invoice is numbered INV-Y-.. for a year Y the calendar showed,
\* and the N-th invoice of year Y is INV-Y-{N zero-padded to 4 digits}, so
\* the sequence numbers of a year are exactly 1..n.
C2_GaplessPerYear ==
    /\ \A i \in 1..Len(invoices) :
           /\ Len(invoices[i].invoiceNumber) >= 13
           /\ yearShown(invoices[i].invoiceNumber) \in Years
    /\ \A yr \in Years :
           LET numbers == numbersOf(invoices, yr)
           IN  \A n \in 1..Len(numbers) : numbers[n] = expectedNumber(yr, n)

\* ten invoices in the first year and one in the next
C2_Witness ==
    /\ Len(numbersOf(invoices, FirstYear)) >= 10
    /\ Len(numbersOf(invoices, FirstYear + 1)) >= 1

\* C3: of two invoices of one year the one committed later (the collection
\* is in commit order) has the strictly larger sequence number.
C3_IncreasingInCommitOrder ==
    \A i, j \in 1..Len(invoices) :
        (/\ i < j
         /\ yearShown(invoices[i].invoiceNumber)
                = yearShown(invoices[j].invoiceNumber))
        => /\ invoices[i].invoiceNumber # invoices[j].invoiceNumber
           /\ seqShown(invoices[i].invoiceNumber)
                  < seqShown(invoices[j].invoiceNumber)

\* the form committed an invoice, an API caller committed one in the same
\* year while the form's render was still pending
C3_Witness ==
    /\ Len(invoices) = 2
    /\ invoices[1].idempotencyKey[1] = "uuid"
    /\ invoices[2].idempotencyKey[1] = "key"
    /\ invoices[1].idempotencyKey \in rendering
    /\ yearShown(invoices[1].invoiceNumber)
           = yearShown(invoices[2].invoiceNumber)

\* C4: createInvoice with a key already present returns the stored record
\* and leaves invoices, products, customers and the seller profile as they
\* were; no uuid is drawn and the next invoice number stays the same.
C4_ReplayChangesNothing ==
    [][\A data \in ApiData, key \in CallerKeys :
           (createInvoice(data, key) /\ holders(key) # {})
           => /\ invoices' = invoices
              /\ products' = products
              /\ customers' = customers
              /\ sellerProfile' = sellerProfile
              /\ nextUuid' = nextUuid
              /\ \E i \in holders(key) : ret' = Some(invoices[i])
              /\ generateInvoiceNumber(invoices', year')
                     = generateInvoiceNumber(invoices, year)]_vars

\* a key was replayed with data that differs from the data of its first call
C4_Witness ==
    /\ Len(invoices) = 2
    /\ ret = Some(invoices[1])
    /\ call # None
    /\ The(call).key = invoices[1].idempotencyKey
    /\ The(call).data.buyer # invoices[1].buyer
    /\ The(call).data.totals # invoices[1].totals

\* the step appended exactly one invoice, built by the ledger for key:
\* Draft, numbered by generateInvoiceNumber in the state before, with an id
\* no invoice had and the caller did not supply, and the profile as seller
appendedFor(key, givenId) ==
    /\ Len(invoices') = Len(invoices) + 1
    /\ SubSeq(invoices', 1, Len(invoices)) = invoices
    /\ LET inv == invoices'[Len(invoices')]
       IN  /\ inv.status = Draft
           /\ inv.invoiceNumber = generateInvoiceNumber(invoices, year)
           /\ inv.idempotencyKey = key
           /\ inv.seller = sellerProfile
           /\ inv.id = nextUuid'
           /\ inv.id > nextUuid
           /\ inv.id \notin givenId
           /\ \A i \in 1..Len(invoices) : invoices[i].id # inv.id

\* C5: createInvoice with an unused key, called by an API caller or by
\* generatePDF, appends exactly one invoice: Draft, numbered by
\* generateInvoiceNumber in the state before, with a new id, the given key
\* and the current seller profile, whatever the data carried.
C5_NewInvoiceIsLedgerBuilt ==
    [][/\ \A data \in ApiData, key \in CallerKeys :
              (createInvoice(data, key) /\ holders(key) = {})
              => appendedFor(key, data.id)
       /\ generatePDFValid
              => appendedFor(UuidKey(nextUuid + 2), {nextUuid + 1})]_vars

\* an API caller passed id, invoiceNumber, status and seller with an unused
\* key while a profile was saved, and the form committed an invoice too
C5_Witness ==
    /\ Len(invoices) = 2
    /\ invoices[1].idempotencyKey[1] = "uuid"
    /\ call # None
    /\ The(call).data = FullData
    /\ ret = Some(invoices[2])
    /\ sellerProfile = Ref("o1")

\* C6: every invoice handed to the renderer has the id, invoiceNumber,
\* status and seller of the invoice stored for its idempotency key.
C6_RendersCommittedRecord ==
    \A k \in 1..Len(handed) :
        \E i \in holders(handed[k].idempotencyKey) :
            /\ invoices[i].id = handed[k].id
            /\ invoices[i].invoiceNumber = handed[k].invoiceNumber
            /\ invoices[i].status = handed[k].status
            /\ invoices[i].seller = handed[k].seller

C8_StatusUpdateFrame ==
    [][\A id \in KnownIds, status \in InvoiceStatus :
           updateInvoiceStatus(id, status)
           => /\ Len(invoices') = Len(invoices)
              /\ \A i \in 1..Len(invoices) :
                     /\ invoices[i].id = id
                            => /\ invoices'[i].status = status
                               /\ sameButStatus(invoices'[i], invoices[i])
                     /\ invoices[i].id # id => invoices'[i] = invoices[i]
              /\ products' = products
              /\ customers' = customers
              /\ sellerProfile' = sellerProfile
              /\ (\A i \in 1..Len(invoices) : invoices[i].id # id)
                     => invoices' = invoices]_vars

\* one of two invoices was marked Paid and the other is still a Draft
C8_Witness ==
    /\ Len(invoices) = 2
    /\ invoices[1].status = Draft
    /\ invoices[2].status = Paid
    /\ products # <<>>
    /\ sellerProfile # Null

\* C9: saveSellerProfile(p) makes p the current profile and leaves the
\* invoices, products and customers as they were; an invoice gets the
\* profile current at its creation as seller, and no step replaces the
\* seller of a stored invoice.
C9_ProfileChangeIsNotRetroactive ==
    [][/\ \A o \in Objs :
              saveSellerProfile(o)
              => /\ sellerProfile' = Ref(o)
                 /\ invoices' = invoices
                 /\ products' = products
                 /\ customers' = customers
       /\ \A i \in 1..Len(invoices') :
              IF i <= Len(invoices)
              THEN invoices'[i].seller = invoices[i].seller
              ELSE invoices'[i].seller = sellerProfile]_vars

\* an invoice created under profile o1 kept it after o2 was saved, and the
\* invoice created afterwards carries o2
C9_Witness ==
    /\ Len(invoices) = 2
    /\ invoices[1].seller = Ref("o1")
    /\ invoices[2].seller = Ref("o2")
    /\ sellerProfile = Ref("o2")

\* C10: an in-place edit of an Account object that was passed to the ledger
\* changes the seller and the buyer of no stored invoice.
C10_SnapshotsAreCopies ==
    [][\A o \in Objs, v \in AccountValues :
           editAccount(o, v)
           => \A i \in 1..Len(invoices) :
                  /\ Deref(heap', invoices'[i].seller)
                         = Deref(heap, invoices[i].seller)
                  /\ Deref(heap', invoices'[i].buyer)
                         = Deref(heap, invoices[i].buyer)]_vars

\* the JSON text j shows the Account that reference r shows through heap h
entryShows(j, h, r) ==
    \/ r = Null /\ j.kind = "jsonNull"
    \/ r = Undefined /\ j.kind = "omitted"
    \/ r.kind \in {"ref", "lit"} /\ j.kind = "jsonObject" /\ j.at = Deref(h, r)

\* the four entries of the store equal the in-memory collections (no seller
\* entry stands for the profile null)
StoreAgrees ==
    /\ localStorage.Bill0_invoices # None
    /\ LET text == The(localStorage.Bill0_invoices).text
       IN  /\ Len(text) = Len(invoices)
           /\ \A i \in 1..Len(text) :
                  /\ sameButStatus([text[i] EXCEPT !.seller = Null,
                                                    !.buyer = Null],
                                   [invoices[i] EXCEPT !.seller = Null,
                                                       !.buyer = Null])
                  /\ text[i].status = invoices[i].status
                  /\ entryShows(text[i].seller, heap, invoices[i].seller)
                  /\ entryShows(text[i].buyer, heap, invoices[i].buyer)
    /\ localStorage.Bill0_products = Some([text |-> products])
    /\ localStorage.Bill0_customers = Some([text |-> customers])
    /\ IF sellerProfile = Null THEN localStorage.Bill0_seller = None
       ELSE /\ localStorage.Bill0_seller # None
            /\ entryShows(The(localStorage.Bill0_seller), heap, sellerProfile)

\* a step of a mutating ledger operation
MutatingStep ==
    \/ \E key \in CallerKeys :
           createInvoice(MinimalData, key) /\ holders(key) = {}
    \/ \E id \in KnownIds : updateInvoiceStatus(id, Paid)
    \/ \E product \in {"p1"} : addProduct(product)
    \/ \E o \in Objs : saveSellerProfile(o)

\* C11: a mutating ledger operation (createInvoice that adds a record,
\* updateInvoiceStatus, addProduct, saveSellerProfile) leaves a run of the
\* auto-save effect scheduled unless the store already equals the in-memory
\* collections, so that the store comes to equal them; and the store is
\* only ever set to what the collections hold at that moment.
C11_EveryMutationIsSaved ==
    [][/\ MutatingStep => (pendingSave' \/ StoreAgrees')
       /\ localStorage' # localStorage => StoreAgrees']_vars

\* the sequence numbers the Bill0_invoices entry holds for year yr
storedSeqs(yr) ==
    IF localStorage.Bill0_invoices = None THEN {}
    ELSE LET text == The(localStorage.Bill0_invoices).text
         IN  {seqShown(text[i].invoiceNumber) :
                  i \in {k \in 1..Len(text) :
                             yearShown(text[k].invoiceNumber) = yr}}

\* the largest member of a set of naturals, 0 for the empty set
Max(S) == IF S = {} THEN 0 ELSE CHOOSE m \in S : \A x \in S : x <= m

\* C12: what the effect writes is what a load reads back: after a write the
\* store equals the collections held then, nothing else writes the store,
\* and a ledger constructed on it holds the stored invoices, products,
\* customers and seller profile; createInvoice with a stored key then
\* returns the stored record and adds nothing, and the next invoice number
\* of the year is the stored maximum sequence plus 1.
C12_RestartCarriesLedger ==
    [][/\ autoSave => /\ StoreAgrees'
                      /\ LET l == loadFromStorage(localStorage')
                         IN  /\ Len(l.invoices) = Len(invoices)
                             /\ l.products = products
                             /\ l.customers = customers
                             /\ (sellerProfile # Null) =>
                                    l.sellerProfile
                                        = Lit(Deref(heap, sellerProfile))
       /\ localStorage' # localStorage => autoSave
       /\ constructor =>
              /\ StoreAgrees' \/ (localStorage = EmptyStorage /\ ledger' =
                                      <<<<>>, <<>>, <<>>, Null>>)
              /\ \A i \in 1..Len(invoices') :
                     LET r == createInvoiceCall(invoices', sellerProfile',
                                 year', nextUuid', MinimalData,
                                 invoices'[i].idempotencyKey)
                         stored == The(localStorage.Bill0_invoices).text[i]
                     IN  /\ r.invoices = invoices'
                         /\ r.uuid = nextUuid'
                         /\ r.ret.id = stored.id
                         /\ r.ret.invoiceNumber = stored.invoiceNumber
                         /\ r.ret.idempotencyKey = stored.idempotencyKey
              /\ generateInvoiceNumber(invoices', year')
                     = expectedNumber(year, Max(storedSeqs(year)) + 1)]_vars

\* after a page load the ledger holds a loaded invoice and profile; a call
\* with the loaded invoice's key returned it, and the invoice created after
\* the load got the next number
C12_Witness ==
    /\ Len(invoices) = 2
    /\ invoices[1].buyer.kind = "lit"
    /\ invoices[2].buyer.kind = "ref"
    /\ invoices[1].seller.kind = "lit"
    /\ invoices[2].invoiceNumber = expectedNumber(year, 2)
    /\ products # <<>>
    /\ call # None
    /\ The(call).key = invoices[1].idempotencyKey
    /\ ret = Some(invoices[1])

\* n / d rounded to the nearest integer, a half going up (d > 0)
roundHalfUp(n, d) == (2 * n + d) \div (2 * d)

\* the line item calculateLineItem was called with last, when it has
\* quantity, unit price and tax data
costedItem ==
    /\ calcArgs # None
    /\ The(calcArgs).fn = "calculateLineItem"
    /\ The(calcArgs).arg.quantity # None
    /\ The(calcArgs).arg.unitPrice # None
    /\ The(calcArgs).arg.taxData # None

\* its quantity, unit price, discount (0 when absent), tax rate argR / argS
\* and tax type
argQ == The(The(calcArgs).arg.quantity)
argP == The(The(calcArgs).arg.unitPrice)
argD == IF The(calcArgs).arg.discount = None THEN 0
        ELSE The(The(calcArgs).arg.discount)
argR == The(The(calcArgs).arg.taxData).rate[1]
argS == The(The(calcArgs).arg.taxData).rate[2]
argT == The(The(calcArgs).arg.taxData).type

\* C13: calculateLineItem on an item with Exclusive tax at r% and no
\* proration yields subtotal = q*p, taxAmount = (q*p - d)*r/100 rounded
\* half up and total = (q*p - d) + taxAmount.
C13_ExclusiveTax ==
    (costedItem /\ argT = Exclusive /\ The(calcArgs).arg.proration = None)
    => /\ calcResult # None
       /\ The(calcResult).subtotal = argQ * argP
       /\ The(calcResult).taxAmount
              = roundHalfUp((argQ * argP - argD) * argR, 100 * argS)
       /\ The(calcResult).total
              = (argQ * argP - argD) + The(calcResult).taxAmount

\* 2 units at 1000 with a discount of 200 and Exclusive tax at 15%: tax 270
C13_Witness ==
    /\ costedItem /\ argT = Exclusive /\ The(calcArgs).arg.proration = None
    /\ argQ = 2 /\ argP = 1000 /\ argD = 200 /\ argR = 15 /\ argS = 1
    /\ The(calcResult).taxAmount = 270
    /\ The(calcResult).total = 2070

\* C14: calculateLineItem on an item with Inclusive tax at r% and no
\* proration takes G = q*p - d as the gross and yields subtotal = q*p,
\* taxAmount = G*r/(100 + r) rounded half up and total = q*p - d.
C14_InclusiveTax ==
    (costedItem /\ argT = Inclusive /\ The(calcArgs).arg.proration = None)
    => /\ calcResult # None
       /\ The(calcResult).subtotal = argQ * argP
       /\ The(calcResult).taxAmount
              = roundHalfUp((argQ * argP - argD) * argR, 100 * argS + argR)
       /\ The(calcResult).total = argQ * argP - argD

\* C16: calculateLineItem on an item with quantity 0 returns subtotal,
\* taxAmount and total 0, whatever its unit price, tax data, discount and
\* proration.
C16_ZeroQuantityIsZero ==
    (costedItem /\ argQ = 0)
    => /\ calcResult # None
       /\ The(calcResult).subtotal = 0
       /\ The(calcResult).taxAmount = 0
       /\ The(calcResult).total = 0

\* the invoice calculateInvoice was called with last and returned a result
\* for
costedInvoice ==
    /\ calcArgs # None
    /\ The(calcArgs).fn = "calculateInvoice"
    /\ calcResult # None

\* its line items ([] when lineItems is absent)
argItems ==
    IF The(calcArgs).arg = None THEN <<>> ELSE The(The(calcArgs).arg)

\* C17: every Money calculateLineItem puts in a costed item (subtotal,
\* taxAmount, total) and every total of calculateInvoice (subtotal,
\* totalDiscount, totalTax, grandTotal) is a non-negative integer, for items
\* with quantity, unit price and discount >= 0 and a rate in 0..100.
C17_AmountsNonNegative ==
    costedInvoice
    => /\ \A i \in 1..Len(The(calcResult).lineItems) :
              /\ The(calcResult).lineItems[i].subtotal \in Nat
              /\ The(calcResult).lineItems[i].taxAmount \in Nat
              /\ The(calcResult).lineItems[i].total \in Nat
       /\ The(calcResult).subtotal \in Nat
       /\ The(calcResult).totalDiscount \in Nat
       /\ The(calcResult).totalTax \in Nat
       /\ The(calcResult).grandTotal \in Nat

\* the sum of f[1..n]
RECURSIVE SumTo(_, _)
SumTo(f, n) == IF n = 0 THEN 0 ELSE SumTo(f, n - 1) + f[n]

\* C18: calculateInvoice returns the supplied items costed by
\* calculateLineItem, in order, with subtotal, totalTax and grandTotal the
\* sums of the items' subtotals, taxAmounts and totals and totalDiscount the
\* sum of the discounts of the items that have one; without line items the
\* four totals are 0.
C18_InvoiceTotalsAreSums ==
    costedInvoice
    => LET items == The(calcResult).lineItems
           n     == Len(argItems)
       IN  /\ Len(items) = n
           /\ \A i \in 1..n : Some(items[i]) = calculateLineItemCall(argItems[i])
           /\ The(calcResult).subtotal
                  = SumTo([i \in 1..n |-> items[i].subtotal], n)
           /\ The(calcResult).totalTax
                  = SumTo([i \in 1..n |-> items[i].taxAmount], n)
           /\ The(calcResult).grandTotal
                  = SumTo([i \in 1..n |-> items[i].total], n)
           /\ The(calcResult).totalDiscount
                  = SumTo([i \in 1..n |->
                              IF argItems[i].discount = None THEN 0
                              ELSE The(argItems[i].discount)], n)
           /\ n = 0 => /\ The(calcResult).subtotal = 0
                       /\ The(calcResult).totalTax = 0
                       /\ The(calcResult).totalDiscount = 0
                       /\ The(calcResult).grandTotal = 0

\* an Exclusive item without discount followed by an Inclusive item with
\* one: 1000 at 15% on top, then 17 less 3 with 36% baked in
C18_Witness ==
    /\ costedInvoice
    /\ Len(argItems) = 2
    /\ argItems[1].discount = None
    /\ argItems[2].discount = Some(3)
    /\ The(calcResult).subtotal = 1017
    /\ The(calcResult).totalTax = 154
    /\ The(calcResult).totalDiscount = 3
    /\ The(calcResult).grandTotal = 1164

\* C15: when T is the taxAmount of a gross G >= 0 with Inclusive tax at an
\* integer rate r in 0..100, the taxAmount of the net G - T with Exclusive
\* tax at r% differs from T by at most 1.
C15_InclusiveRoundTrip ==
    [][(/\ grossCosted
        /\ The(The(calcArgs).arg.unitPrice) >= 0
        /\ The(The(calcArgs).arg.taxData).rate[1] \in 0..100
        /\ calcArgs' # calcArgs
        /\ The(calcArgs').arg
               = SingleItem(The(The(calcArgs).arg.unitPrice)
                                - The(calcResult).taxAmount,
                            The(The(calcArgs).arg.taxData).rate[1], Exclusive))
       => /\ calcResult' # None
          /\ The(calcResult').taxAmount - The(calcResult).taxAmount
                 \in {-1, 0, 1}]_vars

\* the net 50 at 1%: the tax on top is 1 (0.5 rounded up), where the tax of
\* the gross it came from was 0 (gross 50) or 1 (gross 51)
C15_Witness ==
    /\ calcArgs # None
    /\ The(calcArgs).arg = SingleItem(50, 1, Exclusive)
    /\ calcResult # None
    /\ The(calcResult).taxAmount = 1

\* the distance between two integers
Dist(a, b) == IF a >= b THEN a - b ELSE b - a

\* the double x is not negative and within 2^-53 of n / d (n >= 0, d > 0)
closeTo(x, n, d) ==
    LET k == IF x.e < 0 THEN 0 - x.e ELSE 0
        a == bnMul(bnShl(x.m, x.e + k), bnOf(d))
        b == bnShl(bnOf(n), k)
    IN  /\ x.s = 1
        /\ bnCmp(bnShl(IF bnCmp(a, b) >= 0 THEN bnSub(a, b) ELSE bnSub(b, a),
                       53),
                 bnShl(bnOf(d), k)) <= 0

\* C20: for whole-day dates calculateProration returns totalDaysInPeriod =
\* |periodEnd - periodStart| in days + 1, daysOfUse = the number of days
\* that lie both in [startDate, endDate] and in [periodStart, periodEnd]
\* (0 when there is none), and factor = the double daysOfUse /
\* totalDaysInPeriod; so 0 <= daysOfUse <= totalDaysInPeriod and
\* 0 <= factor <= 1.
C20_Proration ==
    (calcArgs # None /\ The(calcArgs).fn = "calculateProration")
    => LET arg == The(calcArgs).arg
           res == The(calcResult)
       IN  /\ res.totalDaysInPeriod = Dist(arg.periodEnd, arg.periodStart) + 1
           /\ res.daysOfUse =
                  Cardinality((arg.startDate..arg.endDate)
                              \cap (arg.periodStart..arg.periodEnd))
           /\ closeTo(res.factor, res.daysOfUse, res.totalDaysInPeriod)
           /\ 0 <= res.daysOfUse
           /\ res.daysOfUse <= res.totalDaysInPeriod
           /\ ~fless(fromInt(1), res.factor)

\* usage from the 1st to the 15th in a period from the 1st to the 31st: 15
\* days of 31
C20_Witness ==
    /\ calcArgs # None
    /\ The(calcArgs).fn = "calculateProration"
    /\ The(calcArgs).arg = [startDate |-> 0, endDate |-> 14,
                            periodStart |-> 0, periodEnd |-> 30]
    /\ The(calcResult).daysOfUse = 15
    /\ The(calcResult).totalDaysInPeriod = 31
    /\ closeTo(The(calcResult).factor, 15, 31)

\* a sequence without its element at index (counted from 0)
without(xs, index) ==
    SubSeq(xs, 1, index) \o SubSeq(xs, index + 2, Len(xs))

\* C19: after every addLineItem, removeLineItem and field edit on the
\* invoice form, calculatedInvoice is calculateInvoice of exactly the line
\* items the form holds; when item i is removed, subtotal, totalDiscount,
\* totalTax and grandTotal go down by the subtotal, discount, taxAmount and
\* total item i had, and the costed items left are the others.
C19_FormTotalsFollowTheForm ==
    /\ [](calculatedInvoice # None
              => calculatedInvoice = recalculate(formValues))
    /\ [][formValues' # formValues => calculatedInvoice' # None]_vars
    /\ [][(removedAt' # None /\ calculatedInvoice # None
               /\ Len(formValues') < Len(formValues))
           => LET i   == The(removedAt') + 1
                  old == The(calculatedInvoice)
                  new == The(calculatedInvoice')
                  it  == old.lineItems[i]
              IN  /\ new.subtotal = old.subtotal - it.subtotal
                  /\ new.totalDiscount
                         = old.totalDiscount - The(it.discount)
                  /\ new.totalTax = old.totalTax - it.taxAmount
                  /\ new.grandTotal = old.grandTotal - it.total
                  /\ new.lineItems = without(old.lineItems, i - 1)]_vars

\* the first of two items was removed; the totals are those of the item
\* that is left, 2 x 10.05 with 15% on top
C19_Witness ==
    /\ removedAt = Some(0)
    /\ Len(formValues) = 1
    /\ formValues[1].quantity = <<2, 1>>
    /\ formValues[1].unitPrice = <<1005, 100>>
    /\ formValues[1].taxRate = <<15, 1>>
    /\ formValues[1].taxType = Exclusive
    /\ formValues[1].discount = <<0, 1>>
    /\ calculatedInvoice # None
    /\ The(calculatedInvoice).subtotal = 2010
    /\ The(calculatedInvoice).totalTax = 302
    /\ The(calculatedInvoice).grandTotal = 2312

\* the call made last was formatMoney
formatted == calcArgs # None /\ The(calcArgs).fn = "formatMoney"

\* s without its commas
ungrouped(s) == SelectSeq(s, LAMBDA c : c # ",")

\* s has a comma at every fourth place counted from its end and nowhere
\* else
commasEveryThree(s) ==
    \A i \in 1..Len(s) : (s[i] = ",") <=> ((Len(s) - i + 1) % 4 = 0)

\* text is the non-negative amount of hundredths written out: the integer
\* part grouped in threes, a point, two decimal digits
writesAmount(text, amount) ==
    /\ Len(text) >= 4
    /\ SubSeq(text, Len(text) - 2, Len(text))
           = <<".", DigitChars[((amount % 100) \div 10) + 1],
               DigitChars[(amount % 10) + 1]>>
    /\ ungrouped(SubSeq(text, 1, Len(text) - 3)) = toString(amount \div 100)
    /\ commasEveryThree(SubSeq(text, 1, Len(text) - 3))

lineItemCalled == calcArgs # None /\ The(calcArgs).fn = "calculateLineItem"

\* C22: calculateLineItem returns a costed line item, computed with the
\* value 0, when the quantity of the item is absent and likewise when its
\* unit price is absent; it returns no result only when the tax data of the
\* item is absent.
C22_AbsentDefaultsToZero ==
    lineItemCalled =>
        /\ (calcResult = None) <=> (The(calcArgs).arg.taxData = None)
        /\ (/\ calcResult # None
            /\ \/ The(calcArgs).arg.quantity = None
               \/ The(calcArgs).arg.unitPrice = None)
           => The(calcResult).subtotal = 0

\* C23: updateInvoiceStatus enforces no transition rule: whatever status s
\* an invoice of the ledger is in, updateInvoiceStatus(id, t) with its id
\* leaves it in status t, for each of Draft, Finalized, Paid and Void, so
\* that a Void or Paid invoice can be moved back to Draft.
C23_AnyStatusFollowsAny ==
    \A i \in 1..Len(invoices), t \in InvoiceStatus :
        updateInvoiceStatusCall(invoices, invoices[i].id, t)[i].status = t

\* a Void and a Paid invoice, each of which updateInvoiceStatus would move
\* back to Draft
C23_Witness ==
    /\ Len(invoices) = 2
    /\ invoices[1].status = Void
    /\ invoices[2].status = Paid
    /\ \A i \in 1..2 :
           updateInvoiceStatusCall(invoices, invoices[i].id, Draft)[i].status
               = Draft

\* the proration of the item calculateLineItem was called with last
argProration == The(The(calcArgs).arg.proration)

\* C24: when the line item carries a proration of d days of use out of D,
\* calculateLineItem yields subtotal = q*p*d/D rounded half up, once; the
\* discount is subtracted from and the tax computed on that rounded
\* subtotal, and the tax is rounded once, after the division.
C24_ProratedOnce ==
    (costedItem /\ The(calcArgs).arg.proration # None)
    => /\ calcResult # None
       /\ The(calcResult).subtotal
              = roundHalfUp(argQ * argP * argProration.daysOfUse,
                            argProration.totalDaysInPeriod)
       /\ The(calcResult).taxAmount
              = IF argT = Exclusive
                THEN roundHalfUp((The(calcResult).subtotal - argD) * argR,
                                 100 * argS)
                ELSE roundHalfUp((The(calcResult).subtotal - argD) * argR,
                                 100 * argS + argR)
       /\ The(calcResult).total
              = IF argT = Exclusive
                THEN (The(calcResult).subtotal - argD)
                         + The(calcResult).taxAmount
                ELSE The(calcResult).subtotal - argD

\* how many entries of errors are the message about line item k
lineItemEntries(errors, k) ==
    Cardinality({j \in 1..Len(errors) : errors[j] = <<"Line Item #", k>>})

\* C25: generatePDF called while the form is invalid adds no invoice to the
\* ledger, consumes no invoice number, renders no PDF, and leaves
\* validationErrors non-empty, with one 'Line Item #k has missing fields'
\* entry for every invalid line item k (and none for a valid one).
C25_InvalidFormCommitsNothing ==
    [][(/\ generatePDFInvalid
        /\ ~(formFields /\ \A k \in 1..Len(formItems) : formItems[k]))
       => /\ invoices' = invoices
          /\ nextUuid' = nextUuid
          /\ generateInvoiceNumber(invoices', year')
                 = generateInvoiceNumber(invoices, year)
          /\ handed' = handed
          /\ rendering' = rendering
          /\ validationErrors' # <<>>
          /\ \A k \in 1..Len(formItems) :
                 lineItemEntries(validationErrors', k)
                     = IF formItems[k] THEN 0 ELSE 1]_vars

\* after one invoice was committed, generatePDF was called with the second
\* of two line items invalid
C25_Witness ==
    /\ Len(invoices) = 1
    /\ Len(handed) = 1
    /\ formFields
    /\ formItems = <<TRUE, FALSE>>
    /\ validationErrors = <<<<"Line Item #", 2>>>>

\* C26: every generatePDF call on a valid form adds exactly one new invoice
\* to the ledger, under a key no invoice carried before: no call finds an
\* existing record, and the invoice added is numbered next after the
\* invoices of the year, so that k calls leave k invoices with k distinct,
\* consecutive numbers.
C26_EveryGenerateCommits ==
    [][generatePDFValid
       => /\ Len(invoices') = Len(invoices) + 1
          /\ SubSeq(invoices', 1, Len(invoices)) = invoices
          /\ holders(invoices'[Len(invoices')].idempotencyKey) = {}
          /\ \A k \in 1..Len(handed) :
                 handed[k].idempotencyKey
                     # invoices'[Len(invoices')].idempotencyKey
          /\ invoices'[Len(invoices')].invoiceNumber
                 = expectedNumber(year, Len(numbersOf(invoices, year)) + 1)]_vars

\* generatePDF was called twice in one year on the one valid form
C26_Witness ==
    /\ Len(invoices) = 2
    /\ Len(handed) = 2
    /\ invoices[1].idempotencyKey = handed[1].idempotencyKey
    /\ invoices[2].idempotencyKey = handed[2].idempotencyKey
    /\ invoices[1].idempotencyKey # invoices[2].idempotencyKey
    /\ invoices[1].invoiceNumber = expectedNumber(FirstYear, 1)
    /\ invoices[2].invoiceNumber = expectedNumber(FirstYear, 2)
    /\ handed[1].lineItems = handed[2].lineItems

\* generateInvoiceNumber was called, and since then no invoice was committed
\* and the year has not changed
numberGiven ==
    /\ calcArgs # None
    /\ The(calcArgs).fn = "generateInvoiceNumber"
    /\ The(calcArgs).arg = [count |-> Len(invoices), year |-> year]

\* C27: generateInvoiceNumber changes no ledger state and reserves nothing:
\* calls with no invoice committed in between, in one year, return the same
\* number, and that number is the one the next createInvoice with an unused
\* key assigns (the one generatePDF puts on the invoice it renders is the
\* one its createInvoice assigns).
C27_NumberIsNotReserved ==
    [][/\ generateInvoiceNumberCalled
              => /\ UNCHANGED <<invoices, products, customers, sellerProfile>>
                 /\ numberGiven => calcResult' = calcResult
       /\ \A data \in ApiData, key \in CallerKeys :
              (createInvoice(data, key) /\ holders(key) = {} /\ numberGiven)
              => invoices'[Len(invoices')].invoiceNumber = The(calcResult)
       /\ generatePDFValid
              => /\ handed'[Len(handed')].invoiceNumber
                        = invoices'[Len(invoices')].invoiceNumber
                 /\ numberGiven
                        => invoices'[Len(invoices')].invoiceNumber
                               = The(calcResult)]_vars

\* the number was asked for with one invoice stored, and the invoice
\* committed next, by an API caller who passed a number of its own, got it
C27_Witness ==
    /\ Len(invoices) = 2
    /\ calcArgs # None
    /\ The(calcArgs).fn = "generateInvoiceNumber"
    /\ The(calcArgs).arg.count = 1
    /\ The(calcResult) = expectedNumber(FirstYear, 2)
    /\ invoices[2].invoiceNumber = The(calcResult)
    /\ call # None
    /\ The(call).data = FullData
    /\ ret = Some(invoices[2])

\* C28: every invoice of the collection has a seller that is an Account,
\* never null or absent, in every state reached through createInvoice, the
\* calls of generatePDF included.
C28_SellerIsAnAccount ==
    \A i \in 1..Len(invoices) :
        /\ invoices[i].seller # Null
        /\ invoices[i].seller # Undefined

\* the sum of the taxAmounts of the costed items of tax type type
taxOfType(items, type) ==
    SumTo([i \in 1..Len(items) |->
              IF The(items[i].taxData).type = type THEN items[i].taxAmount
              ELSE 0], Len(items))

\* C29: for every invoice computed by calculateInvoice whose line items all
\* have a discount field, grandTotal = subtotal - totalDiscount + the
\* taxAmounts of the Exclusive items; grandTotal = subtotal - totalDiscount
\* + totalTax holds exactly when no Inclusive item has a non-zero tax.
C29_GrandTotalLeavesInclusiveTaxOut ==
    (costedInvoice /\ \A i \in 1..Len(argItems) : argItems[i].discount # None)
    => /\ The(calcResult).grandTotal
              = The(calcResult).subtotal - The(calcResult).totalDiscount
                    + taxOfType(The(calcResult).lineItems, Exclusive)
       /\ (The(calcResult).grandTotal
               = The(calcResult).subtotal - The(calcResult).totalDiscount
                     + The(calcResult).totalTax)
          <=> \A i \in 1..Len(The(calcResult).lineItems) :
                  The(The(calcResult).lineItems[i].taxData).type = Inclusive
                      => The(calcResult).lineItems[i].taxAmount = 0

\* the record of the ledger that carries this idempotency key, if any
committedAs(invs, key) ==
    {i \in 1..Len(invs) : invs[i].idempotencyKey = key}

\* C30: generatePDF commits the invoice before it renders: every render
\* still pending has its invoice in the collection, and when
\* generateInvoicePDF is rejected the collection is left as it is, the
\* invoice of that call is still in it, the number it took is not the one
\* generateInvoiceNumber gives next, and validationErrors holds exactly one
\* message, which starts with 'Failed to generate PDF'
C30_CommitBeforeRender ==
    [][/\ \A key \in rendering' : committedAs(invoices', key) # {}
       /\ \A key \in rendering : \A outcome \in {"Error", "other"} :
              renderSettled(key, outcome)
              => /\ invoices' = invoices
                 /\ \E i \in committedAs(invoices', key) :
                        invoices'[i].invoiceNumber
                            # generateInvoiceNumber(invoices', year')
                 /\ Len(validationErrors') = 1
                 /\ validationErrors'[1][1] = "Failed to generate PDF: "]_vars

\* a render failed: the message is shown while the invoice of the call is
\* in the collection
C30_Witness ==
    /\ rendering = {}
    /\ Len(handed) = 1
    /\ committedAs(invoices, handed[1].idempotencyKey) # {}
    /\ validationErrors = <<<<"Failed to generate PDF: ", "Unknown error">>>>

====
